---- MODULE Spec2Model ----
(***************************************************************************)
(* Model of the KOZO Policy Service (services/policy): the grant store     *)
(* (db.rs), the consent engine and risk classifier (ui.rs), the delegator  *)
(* and name resolver (delegation.rs), identity verification (auth.rs) and  *)
(* the request loop (main.rs).                                             *)
(*                                                                         *)
(* Clear-Names are byte strings: a sequence of one-character strings.  The *)
(* zero byte is NUL.  A stored name is the 32-byte null-padded array.      *)
(***************************************************************************)
EXTENDS Integers, Sequences, FiniteSets, TLC

VARIABLES
    apps,          \* PolicyDB.apps: [1..MAX_APPS -> None or AppEntry]
    current_time,  \* PolicyDB.current_time
    audit_log,     \* PolicyDB.audit_log: ring of AuditEvent
    audit_head,    \* PolicyDB.audit_head: next write position (0-based)
    clock,         \* the kernel timer read by get_timestamp
    cnode,         \* kernel: what each app's CNode holds at APP_DELEGATION_SLOT
    halted,        \* TRUE once the panic handler has been entered
    nreq,          \* number of messages received by the request loop
    last,          \* the last request-loop iteration: message, syscalls, reply
    call,          \* the last direct call of a store operation and its result
    ncalls,        \* number of direct calls of store operations made
    hist,          \* per (identity, name): the last grant/revoke call made
    written        \* the audit events written, oldest first, the last
                   \* AUDIT_LOG_LEN of them at most

vars == <<apps, current_time, audit_log, audit_head, clock, cnode, halted,
          nreq, last, call, ncalls, hist, written>>

-----------------------------------------------------------------------------
(* Bounds of the model *)

NumBadges == 2
MaxRequests == 3
MaxCalls == 3

(* Program constants, scaled down where the state space needs it *)

MAX_APPS == 2
MAX_GRANTS_PER_APP == 2
AUDIT_LOG_LEN == 2
CAP_NAME_LEN == 32

(* Option<T>: None is the empty sequence, Some(x) is <<x>> *)
None == << >>
Some(x) == <<x>>
NUL == ""

Badges == 1 .. NumBadges

Min(a, b) == IF a < b THEN a ELSE b

-----------------------------------------------------------------------------
(* Clear-Names used as inputs *)

EMPTY_NAME == << >>
CAMERA_USE == <<"c","a","m","e","r","a",".","u","s","e">>
FILES_HOME_READ == <<"f","i","l","e","s",".","h","o","m","e",".","r","e","a","d">>
NETWORK_INBOUND == <<"n","e","t","w","o","r","k",".","i","n","b","o","u","n","d">>
FILES_SYSTEM_WRITE == <<"f","i","l","e","s",".","s","y","s","t","e","m",".","w","r","i","t","e">>
SYSTEM_RESTORE == <<"s","y","s","t","e","m",".","r","e","s","t","o","r","e">>
CAMERA_US == <<"c","a","m","e","r","a",".","u","s">>

(* The instants the kernel timer is observed at (ms): by the request loop, *)
(* and by direct callers of the store                                      *)
ClockValues == {0, 60000}
DbClockValues == {0, 1000, 1001}

(* Clear-Names carried by requests *)
ReqNames == {EMPTY_NAME, CAMERA_USE, FILES_HOME_READ, NETWORK_INBOUND, SYSTEM_RESTORE}

(* Kernel results (raw isize) *)
VerifyResults == {0, -4}
MintResults == {60, -3}
TransferResults == {0, -2, -4}
AttestResults == {"present", "absent"}
Decisions == {"approved", "denied"}
BadTags == {3}

(* Durations handed to grant (seconds); None is a permanent grant *)
Durations == {None, Some(0), Some(1)}

(* Clear-Names the store operations are called with directly *)
DbNames == {CAMERA_USE, FILES_HOME_READ}

-----------------------------------------------------------------------------
(* db.rs: helpers *)

(* copy of a name into a zeroed [u8; 32], truncated to 31 bytes *)
PadName(bytes) ==
    LET len == Min(Len(bytes), CAP_NAME_LEN - 1)
    IN  [i \in 1 .. CAP_NAME_LEN |-> IF i <= len THEN bytes[i] ELSE NUL]

(* query[0] is read when stored[len] != 0; it is out of bounds for an empty query *)
cap_match_panics(stored, query) ==
    LET len == Min(Len(query), CAP_NAME_LEN - 1)
    IN  stored[len + 1] # NUL /\ Len(query) = 0

(* a comparison that never matches *)
cap_match_never(stored, query) == FALSE

(* a comparison of the first len bytes only, without the terminator test *)
cap_match_prefix(stored, query) ==
    LET len == Min(Len(query), CAP_NAME_LEN - 1)
    IN  SubSeq(stored, 1, len) = SubSeq(query, 1, len)

cap_match(stored, query) ==
    LET len == Min(Len(query), CAP_NAME_LEN - 1)
    IN  /\ SubSeq(stored, 1, len) = SubSeq(query, 1, len)
        /\ (stored[len + 1] = NUL \/ len = CAP_NAME_LEN - 1)

get_timestamp == clock

update_time(db) == [db EXCEPT !.current_time = get_timestamp]

(* a write that does not advance the head *)
audit_head_stuck(db, app_id, action, cap, success) ==
    [db EXCEPT
        !.audit_log[db.audit_head] =
            [timestamp |-> db.current_time, app_id |-> app_id, action |-> action,
             cap_name |-> PadName(cap), success |-> success]]

audit(db, app_id, action, cap, success) ==
    [db EXCEPT
        !.audit_log[db.audit_head] =
            [timestamp |-> db.current_time, app_id |-> app_id, action |-> action,
             cap_name |-> PadName(cap), success |-> success],
        !.audit_head = (db.audit_head + 1) % AUDIT_LOG_LEN]

(* a search that never finds the identity *)
find_app_index_none(db, app_id) == 0

(* a search that takes the first occupied slot, whatever its identity *)
find_app_index_first(db, app_id) ==
    LET found == {i \in 1 .. MAX_APPS : db.apps[i] # None}
    IN  IF found = {} THEN 0 ELSE CHOOSE i \in found : \A j \in found : i <= j

(* index of the first entry of the identity, 0 if there is none *)
find_app_index(db, app_id) ==
    LET hits == {i \in 1 .. MAX_APPS :
                    db.apps[i] # None /\ db.apps[i][1].app_id = app_id}
    IN  IF hits = {} THEN 0 ELSE CHOOSE i \in hits : \A j \in hits : i <= j

find_app(db, app_id) ==
    LET idx == find_app_index(db, app_id)
    IN  IF idx = 0 THEN None ELSE db.apps[idx]

(* a search for room that creates no entry *)
find_or_create_app_never(db, app_id) ==
    LET idx == find_app_index(db, app_id)
    IN  IF idx # 0 THEN [db |-> db, idx |-> idx, ret |-> "Ok"]
        ELSE [db |-> db, idx |-> 0, ret |-> "NoMem"]

(* [db, idx, ret]: the entry's index, created in the first free slot if absent *)
find_or_create_app(db, app_id) ==
    LET idx == find_app_index(db, app_id)
        free == {i \in 1 .. MAX_APPS : db.apps[i] = None}
        slot == CHOOSE i \in free : \A j \in free : i <= j
    IN  IF idx # 0 THEN [db |-> db, idx |-> idx, ret |-> "Ok"]
        ELSE IF free # {}
        THEN [db |-> [db EXCEPT !.apps[slot] = Some([app_id |-> app_id, grants |-> << >>])],
              idx |-> slot, ret |-> "Ok"]
        ELSE [db |-> db, idx |-> 0, ret |-> "NoMem"]

-----------------------------------------------------------------------------
(* db.rs: the store operations.  Each returns the store it leaves, its      *)
(* result, and whether it panicked on the way.                              *)

DB == [apps |-> apps, current_time |-> current_time,
       audit_log |-> audit_log, audit_head |-> audit_head]

(* the loop of is_granted over grants[0..grant_count] from slot i on:       *)
(* "true", "expired", "none", or "panic"                                    *)
RECURSIVE is_granted_scan(_, _, _, _)
is_granted_scan(grants, i, cap, now) ==
    IF i > Len(grants) THEN "none"
    ELSE IF ~grants[i].active THEN is_granted_scan(grants, i + 1, cap, now)
    ELSE IF cap_match_panics(grants[i].cap_name, cap) THEN "panic"
    ELSE IF cap_match(grants[i].cap_name, cap)
         THEN IF grants[i].expires_at = 0 \/ now < grants[i].expires_at
              THEN "true" ELSE "expired"
    ELSE is_granted_scan(grants, i + 1, cap, now)

(* a lookup that never finds a grant *)
is_granted_never(db, app_id, cap) ==
    [db |-> audit(update_time(db), app_id, "Query", cap, TRUE),
     ret |-> FALSE, panic |-> FALSE]

is_granted(db, app_id, cap) ==
    LET db1 == audit(update_time(db), app_id, "Query", cap, TRUE)
        entry == find_app(db1, app_id)
        found == is_granted_scan(entry[1].grants, 1, cap, db1.current_time)
    IN  IF entry = None THEN [db |-> db1, ret |-> FALSE, panic |-> FALSE]
        ELSE IF found = "panic" THEN [db |-> db1, ret |-> FALSE, panic |-> TRUE]
        ELSE IF found = "true" THEN [db |-> db1, ret |-> TRUE, panic |-> FALSE]
        ELSE IF found = "expired"
             THEN [db |-> audit(db1, app_id, "Query", cap, FALSE),
                   ret |-> FALSE, panic |-> FALSE]
        ELSE [db |-> db1, ret |-> FALSE, panic |-> FALSE]

(* the loop of grant and is_expired over every slot below grant_count:      *)
(* the index of the first match, 0 for none, -1 for a panic before it       *)
match_scan_none(grants, i, cap) == 0

RECURSIVE match_scan(_, _, _)
match_scan(grants, i, cap) ==
    IF i > Len(grants) THEN 0
    ELSE IF cap_match_panics(grants[i].cap_name, cap) THEN -1
    ELSE IF cap_match(grants[i].cap_name, cap) THEN i
    ELSE match_scan(grants, i + 1, cap)

(* expires_at for a duration in seconds, in ms: now + secs * 1000 *)
grant_expires_secs(now, duration_secs) ==
    IF duration_secs = None THEN 0 ELSE now + duration_secs[1]

(* an expiry that leaves out the current time *)
grant_expires_no_now(now, duration_secs) ==
    IF duration_secs = None THEN 0 ELSE duration_secs[1] * 1000

(* expires_at for a duration in seconds: 0 stands for a permanent grant *)
grant_expires(now, duration_secs) ==
    IF duration_secs = None THEN 0 ELSE now + duration_secs[1] * 1000

(* an existing grant is renewed: new expiry, active again *)
renew_keeps_tombstone(g, expires) == [g EXCEPT !.expires_at = expires]

(* a renewal that reactivates the grant with its old expiry *)
renew_keeps_expiry(g, expires) == [g EXCEPT !.active = TRUE]

renew(g, expires) == [g EXCEPT !.expires_at = expires, !.active = TRUE]

grant(db, app_id, cap, duration_secs) ==
    LET db1 == update_time(db)
        expires == grant_expires(db1.current_time, duration_secs)
        foc == find_or_create_app(db1, app_id)
        db2 == foc.db
        idx == foc.idx
        entry == db2.apps[idx][1]
        i == match_scan(entry.grants, 1, cap)
        new_grant == [cap_name |-> PadName(cap), granted_at |-> db2.current_time,
                      expires_at |-> expires, active |-> TRUE]
    IN  IF foc.ret # "Ok" THEN [db |-> db1, ret |-> "NoMem", panic |-> FALSE]
        ELSE IF i = -1 THEN [db |-> db2, ret |-> "Ok", panic |-> TRUE]
        ELSE IF i > 0
             THEN [db |-> audit([db2 EXCEPT !.apps[idx][1].grants[i] = renew(@, expires)],
                                app_id, "Grant", cap, TRUE),
                   ret |-> "Ok", panic |-> FALSE]
        ELSE IF Len(entry.grants) >= MAX_GRANTS_PER_APP
             THEN [db |-> db2, ret |-> "NoMem", panic |-> FALSE]
        ELSE [db |-> audit([db2 EXCEPT !.apps[idx][1].grants = Append(@, new_grant)],
                           app_id, "Grant", cap, TRUE),
              ret |-> "Ok", panic |-> FALSE]

(* a revoked grant stays in its slot as a tombstone *)
tombstone_noop(g) == g

tombstone(g) == [g EXCEPT !.active = FALSE]

(* the loop of revoke: the first active slot that matches, 0, or -1 *)
RECURSIVE revoke_scan(_, _, _)
revoke_scan(grants, i, cap) ==
    IF i > Len(grants) THEN 0
    ELSE IF ~grants[i].active THEN revoke_scan(grants, i + 1, cap)
    ELSE IF cap_match_panics(grants[i].cap_name, cap) THEN -1
    ELSE IF cap_match(grants[i].cap_name, cap) THEN i
    ELSE revoke_scan(grants, i + 1, cap)

(* a revoke that touches no grant *)
revoke_noop(db, app_id, cap) ==
    [db |-> update_time(db), ret |-> "Ok", panic |-> FALSE]

revoke(db, app_id, cap) ==
    LET db1 == update_time(db)
        idx == find_app_index(db1, app_id)
        i == revoke_scan(db1.apps[idx][1].grants, 1, cap)
    IN  IF idx = 0 THEN [db |-> db1, ret |-> "Ok", panic |-> FALSE]
        ELSE IF i = -1 THEN [db |-> db1, ret |-> "Ok", panic |-> TRUE]
        ELSE IF i > 0
             THEN [db |-> audit([db1 EXCEPT !.apps[idx][1].grants[i] = tombstone(@)],
                                app_id, "Revoke", cap, TRUE),
                   ret |-> "Ok", panic |-> FALSE]
        ELSE [db |-> db1, ret |-> "Ok", panic |-> FALSE]

(* an expiry test that still counts the instant of expiry as unexpired *)
is_expired_late(db, app_id, cap) ==
    LET db1 == update_time(db)
        entry == find_app(db1, app_id)
        i == match_scan(entry[1].grants, 1, cap)
        g == entry[1].grants[i]
    IN  IF entry = None THEN [db |-> db1, ret |-> TRUE, panic |-> FALSE]
        ELSE IF i = -1 THEN [db |-> db1, ret |-> TRUE, panic |-> TRUE]
        ELSE IF i = 0 THEN [db |-> db1, ret |-> TRUE, panic |-> FALSE]
        ELSE IF ~g.active THEN [db |-> db1, ret |-> TRUE, panic |-> FALSE]
        ELSE IF g.expires_at = 0 THEN [db |-> db1, ret |-> FALSE, panic |-> FALSE]
        ELSE [db |-> db1, ret |-> db1.current_time > g.expires_at, panic |-> FALSE]

is_expired(db, app_id, cap) ==
    LET db1 == update_time(db)
        entry == find_app(db1, app_id)
        i == match_scan(entry[1].grants, 1, cap)
        g == entry[1].grants[i]
    IN  IF entry = None THEN [db |-> db1, ret |-> TRUE, panic |-> FALSE]
        ELSE IF i = -1 THEN [db |-> db1, ret |-> TRUE, panic |-> TRUE]
        ELSE IF i = 0 THEN [db |-> db1, ret |-> TRUE, panic |-> FALSE]
        ELSE IF ~g.active THEN [db |-> db1, ret |-> TRUE, panic |-> FALSE]
        ELSE IF g.expires_at = 0 THEN [db |-> db1, ret |-> FALSE, panic |-> FALSE]
        ELSE [db |-> db1, ret |-> db1.current_time >= g.expires_at, panic |-> FALSE]

log_denial(db, app_id, cap) == audit(db, app_id, "Deny", cap, FALSE)

(* the slice &audit_log[start..] *)
get_recent_events(db, count) ==
    LET start == IF count > AUDIT_LOG_LEN THEN 0 ELSE AUDIT_LOG_LEN - count
    IN  [i \in 1 .. AUDIT_LOG_LEN - start |-> db.audit_log[start + i - 1]]

-----------------------------------------------------------------------------
(* String operations on byte sequences *)

starts_with(s, p) == Len(s) >= Len(p) /\ SubSeq(s, 1, Len(p)) = p

contains(s, p) ==
    \E i \in 1 .. (Len(s) - Len(p) + 1) : SubSeq(s, i, i + Len(p) - 1) = p

L_system_ == <<"s","y","s","t","e","m",".">>
L_disk_ == <<"d","i","s","k",".">>
L_admin_ == <<"a","d","m","i","n",".">>
L_restore == <<"r","e","s","t","o","r","e">>
L_configure == <<"c","o","n","f","i","g","u","r","e">>
L_camera_ == <<"c","a","m","e","r","a",".">>
L_microphone_ == <<"m","i","c","r","o","p","h","o","n","e",".">>
L_location_ == <<"l","o","c","a","t","i","o","n",".">>
L_biometric_ == <<"b","i","o","m","e","t","r","i","c",".">>
L_network_ == <<"n","e","t","w","o","r","k",".">>
L_local == <<"l","o","c","a","l">>
L_lan == <<"l","a","n">>
L_files_ == <<"f","i","l","e","s",".">>
L_system == <<"s","y","s","t","e","m">>
L_etc == <<"e","t","c">>
L_home == <<"h","o","m","e">>
L_documents == <<"d","o","c","u","m","e","n","t","s">>
L_download == <<"d","o","w","n","l","o","a","d">>
L_temp == <<"t","e","m","p">>
L_process_ == <<"p","r","o","c","e","s","s",".">>
L_kill == <<"k","i","l","l">>
L_debug == <<"d","e","b","u","g">>
L_graphics_ == <<"g","r","a","p","h","i","c","s",".">>
L_gpu_ == <<"g","p","u",".">>
L_audio_out == <<"a","u","d","i","o",".","o","u","t">>
L_audio_in == <<"a","u","d","i","o",".","i","n">>
L__write == <<".","w","r","i","t","e">>
L__use == <<".","u","s","e">>
L__grant == <<".","g","r","a","n","t">>
L__map == <<".","m","a","p">>

-----------------------------------------------------------------------------
(* ui.rs: risk classifier and consent engine *)

default_duration(risk) ==
    CASE risk = "Low" -> 3600
      [] risk = "Medium" -> 300
      [] risk = "High" -> 60
      [] risk = "Critical" -> 0

(* a classifier that answers the default level for every name *)
assess_risk_default(cap_name) == "Medium"

assess_risk(cap_name) ==
    IF \/ starts_with(cap_name, L_system_)
       \/ starts_with(cap_name, L_disk_)
       \/ starts_with(cap_name, L_admin_)
       \/ contains(cap_name, L_restore)
       \/ contains(cap_name, L_configure)
    THEN "Critical"
    ELSE IF \/ starts_with(cap_name, L_camera_)
            \/ starts_with(cap_name, L_microphone_)
            \/ starts_with(cap_name, L_location_)
            \/ starts_with(cap_name, L_biometric_)
    THEN "High"
    ELSE IF starts_with(cap_name, L_network_)
    THEN IF contains(cap_name, L_local) \/ contains(cap_name, L_lan)
         THEN "High" ELSE "Medium"
    ELSE IF starts_with(cap_name, L_files_)
    THEN IF contains(cap_name, L_system) \/ contains(cap_name, L_etc) THEN "High"
         ELSE IF contains(cap_name, L_home) \/ contains(cap_name, L_documents) THEN "Medium"
         ELSE IF contains(cap_name, L_download) \/ contains(cap_name, L_temp) THEN "Low"
         ELSE "Medium"
    ELSE IF starts_with(cap_name, L_process_)
    THEN IF contains(cap_name, L_kill) \/ contains(cap_name, L_debug)
         THEN "High" ELSE "Medium"
    ELSE IF starts_with(cap_name, L_graphics_) \/ starts_with(cap_name, L_gpu_)
    THEN "Medium"
    ELSE IF starts_with(cap_name, L_audio_out) THEN "Low"
    ELSE IF starts_with(cap_name, L_audio_in) THEN "High"
    ELSE "Medium"

(* the prompt is printed and approved whatever the risk; the user's        *)
(* decision is not read                                                    *)
trigger_secure_prompt(app_id, cap_name, risk, decision) == TRUE

(* the hardware_attest syscall is issued and its result discarded *)
require_hardware_presence(attest) == TRUE

-----------------------------------------------------------------------------
(* delegation.rs: name resolver and delegator *)

SYSTEM_CAMERA_CAP == 10
SYSTEM_NET_OUTBOUND_CAP == 11
SYSTEM_NET_LOCAL_CAP == 12
SYSTEM_FS_HOME_CAP == 20
SYSTEM_FS_SYSTEM_CAP == 21
SYSTEM_PROCESS_SPAWN_CAP == 30
SYSTEM_PROCESS_SIGNAL_CAP == 31
SYSTEM_AUDIO_OUT_CAP == 40
SYSTEM_AUDIO_IN_CAP == 41
SYSTEM_GPU_RENDER_CAP == 50
APP_DELEGATION_SLOT == 5

(* Error::from_raw *)
from_raw(v) ==
    CASE v = -1 -> "Invalid"
      [] v = -2 -> "NoCap"
      [] v = -3 -> "NoMem"
      [] v = -4 -> "AccessDenied"
      [] OTHER -> "Invalid"

(* a resolver whose forbidden arms hand out a slot *)
resolve_forbidden_allowed(cap_name) ==
    IF cap_name \in {NETWORK_INBOUND, FILES_SYSTEM_WRITE}
    THEN [ok |-> TRUE, slot |-> SYSTEM_NET_LOCAL_CAP, err |-> "Ok"]
    ELSE [ok |-> FALSE, slot |-> 0, err |-> "Invalid"]

(* [ok, slot, err] *)
resolve_system_capability(cap_name) ==
    CASE cap_name = <<"c","a","m","e","r","a",".","u","s","e">> -> [ok |-> TRUE, slot |-> SYSTEM_CAMERA_CAP, err |-> "Ok"]
      [] cap_name = <<"c","a","m","e","r","a",".","r","e","c","o","r","d">> -> [ok |-> TRUE, slot |-> SYSTEM_CAMERA_CAP, err |-> "Ok"]
      [] cap_name = <<"n","e","t","w","o","r","k",".","o","u","t","b","o","u","n","d">> -> [ok |-> TRUE, slot |-> SYSTEM_NET_OUTBOUND_CAP, err |-> "Ok"]
      [] cap_name = <<"n","e","t","w","o","r","k",".","l","o","c","a","l">> -> [ok |-> TRUE, slot |-> SYSTEM_NET_LOCAL_CAP, err |-> "Ok"]
      [] cap_name = <<"n","e","t","w","o","r","k",".","i","n","b","o","u","n","d">> -> [ok |-> FALSE, slot |-> 0, err |-> "AccessDenied"]
      [] cap_name = <<"f","i","l","e","s",".","h","o","m","e",".","r","e","a","d">> -> [ok |-> TRUE, slot |-> SYSTEM_FS_HOME_CAP, err |-> "Ok"]
      [] cap_name = <<"f","i","l","e","s",".","h","o","m","e",".","w","r","i","t","e">> -> [ok |-> TRUE, slot |-> SYSTEM_FS_HOME_CAP, err |-> "Ok"]
      [] cap_name = <<"f","i","l","e","s",".","s","y","s","t","e","m",".","r","e","a","d">> -> [ok |-> TRUE, slot |-> SYSTEM_FS_SYSTEM_CAP, err |-> "Ok"]
      [] cap_name = <<"f","i","l","e","s",".","s","y","s","t","e","m",".","w","r","i","t","e">> -> [ok |-> FALSE, slot |-> 0, err |-> "AccessDenied"]
      [] cap_name = <<"p","r","o","c","e","s","s",".","s","p","a","w","n">> -> [ok |-> TRUE, slot |-> SYSTEM_PROCESS_SPAWN_CAP, err |-> "Ok"]
      [] cap_name = <<"p","r","o","c","e","s","s",".","s","i","g","n","a","l">> -> [ok |-> TRUE, slot |-> SYSTEM_PROCESS_SIGNAL_CAP, err |-> "Ok"]
      [] cap_name = <<"a","u","d","i","o",".","o","u","t">> -> [ok |-> TRUE, slot |-> SYSTEM_AUDIO_OUT_CAP, err |-> "Ok"]
      [] cap_name = <<"a","u","d","i","o",".","i","n">> -> [ok |-> TRUE, slot |-> SYSTEM_AUDIO_IN_CAP, err |-> "Ok"]
      [] cap_name = <<"g","r","a","p","h","i","c","s",".","r","e","n","d","e","r">> -> [ok |-> TRUE, slot |-> SYSTEM_GPU_RENDER_CAP, err |-> "Ok"]
      [] cap_name = <<"g","p","u",".","c","o","m","p","u","t","e">> -> [ok |-> TRUE, slot |-> SYSTEM_GPU_RENDER_CAP, err |-> "Ok"]
      [] OTHER -> [ok |-> FALSE, slot |-> 0, err |-> "Invalid"]

(* rights handed on without attenuation *)
rights_unattenuated(cap_name) == {"READ", "WRITE", "GRANT", "MAP"}

(* an attenuation that tests .grant before .write and .use *)
rights_grant_first(cap_name) ==
    IF contains(cap_name, L__grant) THEN {"READ", "WRITE", "GRANT"}
    ELSE IF contains(cap_name, L__write) \/ contains(cap_name, L__use)
    THEN {"READ", "WRITE"}
    ELSE IF contains(cap_name, L__map) THEN {"READ", "MAP"}
    ELSE {"READ"}

calculate_attenuated_rights(cap_name) ==
    IF contains(cap_name, L__write) \/ contains(cap_name, L__use)
    THEN {"READ", "WRITE"}
    ELSE IF contains(cap_name, L__grant) THEN {"READ", "WRITE", "GRANT"}
    ELSE IF contains(cap_name, L__map) THEN {"READ", "MAP"}
    ELSE {"READ"}

is_path_scoped(cap_name) == starts_with(cap_name, L_files_)

(* the kernel's side of cap_transfer: on success the destination CNode    *)
(* holds the capability at the destination slot                            *)
kernel_cap_transfer(cn, handle, origin, dest_cnode, rights, res) ==
    IF res = 0
    THEN [cn EXCEPT ![dest_cnode] =
            Some([handle |-> handle, origin |-> origin, rights |-> rights])]
    ELSE cn

(* the kernel's side of cap_revoke: on success the slot is empty *)
kernel_cap_revoke(cn, dest_cnode, res) ==
    IF res = 0 THEN [cn EXCEPT ![dest_cnode] = None] ELSE cn

(* a delegator that mints the child and then transfers the master *)
delegate_transfers_master(cn, app_id, cap_name, mint_res, transfer_res) ==
    LET src == resolve_system_capability(cap_name)
        rights == calculate_attenuated_rights(cap_name)
        dest_cnode == app_id
        minted == is_path_scoped(cap_name)
        mint_call == <<"cap_mint", src.slot, rights, mint_res>>
        transfer_call == <<"cap_transfer", src.slot, dest_cnode,
                           APP_DELEGATION_SLOT, rights, transfer_res>>
        calls == IF minted THEN <<mint_call, transfer_call>> ELSE <<transfer_call>>
    IN  IF ~src.ok THEN [ret |-> src.err, syscalls |-> << >>, cnode |-> cn]
        ELSE IF minted /\ mint_res < 0
             THEN [ret |-> from_raw(mint_res), syscalls |-> <<mint_call>>, cnode |-> cn]
        ELSE IF transfer_res < 0
             THEN [ret |-> from_raw(transfer_res), syscalls |-> calls, cnode |-> cn]
        ELSE [ret |-> "Ok", syscalls |-> calls,
              cnode |-> kernel_cap_transfer(cn, src.slot, src.slot,
                                            dest_cnode, rights, transfer_res)]

(* [ret, syscalls, cnode]: the syscalls issued, in order, with their results *)
delegate_capability(cn, app_id, cap_name, mint_res, transfer_res) ==
    LET src == resolve_system_capability(cap_name)
        rights == calculate_attenuated_rights(cap_name)
        dest_cnode == app_id
        minted == is_path_scoped(cap_name)
        mint_call == <<"cap_mint", src.slot, rights, mint_res>>
        transfer_handle == IF minted THEN mint_res ELSE src.slot
        transfer_call == <<"cap_transfer", transfer_handle, dest_cnode,
                           APP_DELEGATION_SLOT, rights, transfer_res>>
        calls == IF minted THEN <<mint_call, transfer_call>> ELSE <<transfer_call>>
    IN  IF ~src.ok THEN [ret |-> src.err, syscalls |-> << >>, cnode |-> cn]
        ELSE IF minted /\ mint_res < 0
             THEN [ret |-> from_raw(mint_res), syscalls |-> <<mint_call>>, cnode |-> cn]
        ELSE IF transfer_res < 0
             THEN [ret |-> from_raw(transfer_res), syscalls |-> calls, cnode |-> cn]
        ELSE [ret |-> "Ok", syscalls |-> calls,
              cnode |-> kernel_cap_transfer(cn, transfer_handle, src.slot,
                                            dest_cnode, rights, transfer_res)]

(* a revoker that surfaces every negative result, NoCap included *)
revoke_capability_strict(cn, app_id, cap_name, revoke_res) ==
    LET dest_cnode == app_id
        revoke_call == <<"cap_revoke", dest_cnode, APP_DELEGATION_SLOT, revoke_res>>
    IN  [ret |-> IF revoke_res < 0 THEN from_raw(revoke_res) ELSE "Ok",
         syscalls |-> <<revoke_call>>,
         cnode |-> kernel_cap_revoke(cn, dest_cnode, revoke_res)]

revoke_capability(cn, app_id, cap_name, revoke_res) ==
    LET dest_cnode == app_id
        revoke_call == <<"cap_revoke", dest_cnode, APP_DELEGATION_SLOT, revoke_res>>
    IN  [ret |-> IF revoke_res < 0 /\ revoke_res # -2
                 THEN from_raw(revoke_res) ELSE "Ok",
         syscalls |-> <<revoke_call>>,
         cnode |-> kernel_cap_revoke(cn, dest_cnode, revoke_res)]

-----------------------------------------------------------------------------
(* auth.rs *)

verify_always_ok(badge, thread_cap, res) == "Ok"

(* AppID::verify: the cap_verify syscall's result decides *)
verify(badge, thread_cap, res) == IF res = 0 THEN "Ok" ELSE "AccessDenied"

-----------------------------------------------------------------------------
(* main.rs: the request loop *)

BAD_BYTE == "0xFF"
INVALID_STR == <<"i","n","v","a","l","i","d">>

(* the 32-byte name field of a message carrying the name *)
NameField(name) ==
    [i \in 1 .. CAP_NAME_LEN |-> IF i <= Len(name) THEN name[i] ELSE NUL]

(* bytes.iter().position(|&b| b == 0).unwrap_or(32), searching from i on *)
RECURSIVE nul_position(_, _)
nul_position(bytes, i) ==
    IF i > CAP_NAME_LEN THEN CAP_NAME_LEN
    ELSE IF bytes[i] = NUL THEN i - 1
    ELSE nul_position(bytes, i + 1)

null_terminated_str(bytes) ==
    LET len == nul_position(bytes, 1)
    IN  IF \E i \in 1 .. len : bytes[i] = BAD_BYTE
        THEN INVALID_STR ELSE SubSeq(bytes, 1, len)

Granted == <<"Granted">>
Denied == <<"Denied">>
Revoked == <<"Revoked">>
List(names) == <<"List", names>>
Error(e) == <<"Error", e>>
NoReply == <<"none">>

(* what a handler leaves: store, kernel table, syscalls issued, reply *)
Outcome(db, cn, syscalls, reply, panic) ==
    [db |-> db, cnode |-> cn, syscalls |-> syscalls, reply |-> reply, panic |-> panic]

(* k: the results the kernel and the user give to what the handler asks *)
handle_capability_request(db, cn, app_id, cap_name_bytes, k) ==
    LET cap_name == null_terminated_str(cap_name_bytes)
        g == is_granted(db, app_id, cap_name)
        warm == delegate_capability(cn, app_id, cap_name, k.mint, k.transfer)
        risk == assess_risk(cap_name)
        attest_call == <<"hardware_attest", 0, k.attest>>
        prompt_call == <<"prompt", app_id, risk, k.decision>>
        present == require_hardware_presence(k.attest)
        consent_calls ==
            IF risk = "Critical"
            THEN IF present THEN <<attest_call, prompt_call>> ELSE <<attest_call>>
            ELSE <<prompt_call>>
        approved ==
            IF risk = "Critical"
            THEN present /\ trigger_secure_prompt(app_id, cap_name, risk, k.decision)
            ELSE trigger_secure_prompt(app_id, cap_name, risk, k.decision)
        duration == default_duration(risk)
        st == grant(g.db, app_id, cap_name, Some(duration))
        cold == delegate_capability(cn, app_id, cap_name, k.mint, k.transfer)
        rollback == revoke(st.db, app_id, cap_name)
    IN  IF g.panic THEN Outcome(g.db, cn, << >>, NoReply, TRUE)
        ELSE IF g.ret
        THEN Outcome(g.db, warm.cnode, warm.syscalls,
                     IF warm.ret = "Ok" THEN Granted ELSE Error(warm.ret), FALSE)
        ELSE IF ~approved
        THEN Outcome(log_denial(g.db, app_id, cap_name), cn, consent_calls,
                     Denied, FALSE)
        ELSE IF st.panic THEN Outcome(st.db, cn, consent_calls, NoReply, TRUE)
        ELSE IF st.ret # "Ok"
        THEN Outcome(st.db, cn, consent_calls, Error(st.ret), FALSE)
        ELSE IF cold.ret = "Ok"
        THEN Outcome(st.db, cold.cnode, consent_calls \o cold.syscalls, Granted, FALSE)
        ELSE IF rollback.panic
        THEN Outcome(rollback.db, cold.cnode, consent_calls \o cold.syscalls,
                     NoReply, TRUE)
        ELSE Outcome(rollback.db, cold.cnode, consent_calls \o cold.syscalls,
                     Error(cold.ret), FALSE)

handle_revocation(db, cn, app_id, cap_name_bytes, k) ==
    LET cap_name == null_terminated_str(cap_name_bytes)
        kr == revoke_capability(cn, app_id, cap_name, k.revoke)
        rv == revoke(db, app_id, cap_name)
    IN  IF kr.ret # "Ok" THEN Outcome(db, kr.cnode, kr.syscalls, Error(kr.ret), FALSE)
        ELSE IF rv.panic THEN Outcome(rv.db, kr.cnode, kr.syscalls, NoReply, TRUE)
        ELSE IF rv.ret # "Ok"
        THEN Outcome(rv.db, kr.cnode, kr.syscalls, Error(rv.ret), FALSE)
        ELSE Outcome(rv.db, kr.cnode, kr.syscalls, Revoked, FALSE)

(* the reply is a zeroed 256-byte list: no name is serialized *)
handle_query(db, cn, app_id) == Outcome(db, cn, << >>, List(<< >>), FALSE)

thread_cap_of(req) == IF req.tag = 0 THEN req.thread_cap ELSE 0

(* one iteration of the loop of main for a decoded request *)
main_iteration(db, cn, badge, req, k) ==
    LET app_id == badge
        verify_call == <<"cap_verify", badge, thread_cap_of(req), k.verify>>
        auth == verify(app_id, thread_cap_of(req), k.verify)
        h == CASE req.tag = 0 -> handle_capability_request(db, cn, app_id, req.name, k)
               [] req.tag = 1 -> handle_revocation(db, cn, app_id, req.name, k)
               [] req.tag = 2 -> handle_query(db, cn, app_id)
    IN  IF auth # "Ok"
        THEN Outcome(db, cn, <<verify_call>>, Error("AccessDenied"), FALSE)
        ELSE [h EXCEPT !.syscalls = <<verify_call>> \o @]

-----------------------------------------------------------------------------
(* The initial state: PolicyDB::new, an empty kernel table, timer at 0 *)

NoCall == [op |-> "none", app_id |-> 0, cap |-> EMPTY_NAME, dur |-> None,
           now |-> 0, ret |-> "none"]

NoHist == [st |-> "none", dur |-> None, at |-> 0]

NoRequest == [badge |-> 0, tag |-> 255, name |-> NameField(EMPTY_NAME),
              syscalls |-> << >>, reply |-> NoReply]

Init ==
    /\ apps = [i \in 1 .. MAX_APPS |-> None]
    /\ current_time = 0
    /\ audit_log = [i \in 0 .. AUDIT_LOG_LEN - 1 |->
                      [timestamp |-> 0, app_id |-> 0, action |-> "Query",
                       cap_name |-> PadName(EMPTY_NAME), success |-> FALSE]]
    /\ audit_head = 0
    /\ clock = 0
    /\ cnode = [b \in Badges |-> None]
    /\ halted = FALSE
    /\ nreq = 0
    /\ last = NoRequest
    /\ call = NoCall
    /\ ncalls = 0
    /\ hist = [b \in Badges |-> [n \in DbNames |-> NoHist]]
    /\ written = << >>

(* a bool result as recorded in a call *)
BoolStr(b) == IF b THEN "true" ELSE "false"

(* the store a call leaves behind *)
SetDB(db) ==
    /\ apps' = db.apps
    /\ current_time' = db.current_time
    /\ audit_log' = db.audit_log
    /\ audit_head' = db.audit_head

(* the kernel timer advances; it never goes back *)
TickIn(instants) ==
    /\ ~halted
    /\ \E t \in instants : t > clock /\ clock' = t
    /\ UNCHANGED <<apps, current_time, audit_log, audit_head, cnode, halted,
                   nreq, last, call, ncalls, hist, written>>

Tick == TickIn(ClockValues)

TickDB == TickIn(DbClockValues)

-----------------------------------------------------------------------------
(* Direct calls of the store operations, as a client of PolicyDB makes them *)

DbCall(op, app_id, cap, dur, r, ret) ==
    /\ SetDB(r.db)
    /\ halted' = r.panic
    /\ call' = [op |-> op, app_id |-> app_id, cap |-> cap, dur |-> dur,
                now |-> r.db.current_time,
                ret |-> IF r.panic THEN "panic" ELSE ret]
    /\ ncalls' = ncalls + 1
    /\ UNCHANGED <<clock, cnode, nreq, last, written>>

DbGrant ==
    /\ ~halted /\ ncalls < MaxCalls
    /\ \E app_id \in Badges, cap \in DbNames, dur \in Durations :
        LET r == grant(DB, app_id, cap, dur)
        IN  /\ DbCall("grant", app_id, cap, dur, r, r.ret)
            /\ hist' = IF r.ret = "Ok" /\ ~r.panic
                       THEN [hist EXCEPT ![app_id][cap] =
                               [st |-> "granted", dur |-> dur, at |-> clock]]
                       ELSE hist

DbRevoke ==
    /\ ~halted /\ ncalls < MaxCalls
    /\ \E app_id \in Badges, cap \in DbNames :
        LET r == revoke(DB, app_id, cap)
        IN  /\ DbCall("revoke", app_id, cap, None, r, r.ret)
            /\ hist' = IF ~r.panic
                       THEN [hist EXCEPT ![app_id][cap] =
                               [st |-> "revoked", dur |-> None, at |-> clock]]
                       ELSE hist

DbIsGranted ==
    /\ ~halted /\ ncalls < MaxCalls
    /\ \E app_id \in Badges, cap \in DbNames :
        LET r == is_granted(DB, app_id, cap)
        IN  /\ DbCall("is_granted", app_id, cap, None, r, BoolStr(r.ret))
            /\ UNCHANGED hist

NextDB == DbGrant \/ DbRevoke \/ DbIsGranted \/ TickDB

SpecDB == Init /\ [][NextDB]_vars

-----------------------------------------------------------------------------
(* Writes to the audit ring, one call of audit per step *)

MaxWrites == 10 * AUDIT_LOG_LEN

AuditActions == {<<"Grant", TRUE>>, <<"Revoke", TRUE>>, <<"Deny", FALSE>>,
                 <<"Query", TRUE>>, <<"Query", FALSE>>}

(* the last AUDIT_LOG_LEN events of a sequence of events *)
LastEvents(events) ==
    IF Len(events) <= AUDIT_LOG_LEN THEN events
    ELSE SubSeq(events, Len(events) - AUDIT_LOG_LEN + 1, Len(events))

AuditWrite ==
    /\ ~halted /\ ncalls < MaxWrites
    /\ \E app_id \in Badges, act \in AuditActions, cap \in DbNames :
        /\ SetDB(audit(DB, app_id, act[1], cap, act[2]))
        /\ written' = LastEvents(Append(written,
                          [timestamp |-> current_time, app_id |-> app_id,
                           action |-> act[1], cap_name |-> PadName(cap),
                           success |-> act[2]]))
    /\ ncalls' = ncalls + 1
    /\ UNCHANGED <<clock, cnode, halted, nreq, last, call, hist>>

NextAudit == AuditWrite

SpecAudit == Init /\ [][NextAudit]_vars

-----------------------------------------------------------------------------
(* The request loop: one action per kind of message received.  An action   *)
(* is one whole iteration of the loop of main.                             *)

THREAD_CAP == 7

(* results for the syscalls a request does not reach *)
Unasked == [verify |-> 0, attest |-> "present", decision |-> "approved",
            mint |-> 0, transfer |-> 0, revoke |-> 0]

(* what cap_revoke may answer for the delegation slot of a CNode *)
RevokeResults(cn, dest_cnode) ==
    (IF cn[dest_cnode] = None THEN {0, -2} ELSE {0}) \cup {-4}

Finish(badge, req, o) ==
    /\ SetDB(o.db)
    /\ cnode' = o.cnode
    /\ halted' = o.panic
    /\ nreq' = nreq + 1
    /\ last' = [badge |-> badge, tag |-> req.tag, name |-> req.name,
                syscalls |-> o.syscalls, reply |-> o.reply]
    /\ UNCHANGED <<clock, call, ncalls, hist, written>>

RecvCapability ==
    /\ ~halted /\ nreq < MaxRequests
    /\ \E badge \in Badges, name \in ReqNames, v \in VerifyResults :
        LET req == [tag |-> 0, name |-> NameField(name), thread_cap |-> THREAD_CAP]
        IN  \/ /\ v # 0
               /\ Finish(badge, req,
                         main_iteration(DB, cnode, badge, req,
                                        [Unasked EXCEPT !.verify = v]))
            \/ /\ v = 0
               /\ \E a \in (IF assess_risk(name) = "Critical"
                            THEN AttestResults ELSE {"present"}),
                     d \in Decisions,
                     m \in (IF is_path_scoped(name) /\ resolve_system_capability(name).ok
                            THEN MintResults ELSE {0}) :
                  \E t \in (IF resolve_system_capability(name).ok /\ m >= 0
                            THEN TransferResults ELSE {0}) :
                    Finish(badge, req,
                           main_iteration(DB, cnode, badge, req,
                                          [verify |-> v, attest |-> a, decision |-> d,
                                           mint |-> m, transfer |-> t, revoke |-> 0]))

RecvRevoke ==
    /\ ~halted /\ nreq < MaxRequests
    /\ \E badge \in Badges, name \in ReqNames, v \in VerifyResults :
        LET req == [tag |-> 1, name |-> NameField(name), thread_cap |-> 0]
        IN  \E r \in (IF v = 0 THEN RevokeResults(cnode, badge) ELSE {0}) :
                Finish(badge, req,
                       main_iteration(DB, cnode, badge, req,
                                      [Unasked EXCEPT !.verify = v, !.revoke = r]))

RecvQuery ==
    /\ ~halted /\ nreq < MaxRequests
    /\ \E badge \in Badges, v \in VerifyResults :
        LET req == [tag |-> 2, name |-> NameField(EMPTY_NAME), thread_cap |-> 0]
        IN  Finish(badge, req,
                   main_iteration(DB, cnode, badge, req,
                                  [Unasked EXCEPT !.verify = v]))

(* receive_request returns Err(Invalid) for an unknown tag: the error is   *)
(* logged and the loop goes on to the next receive; nothing is sent        *)
RecvBadTag ==
    /\ ~halted /\ nreq < MaxRequests
    /\ \E badge \in Badges, tag \in BadTags :
        /\ nreq' = nreq + 1
        /\ last' = [badge |-> badge, tag |-> tag, name |-> NameField(EMPTY_NAME),
                    syscalls |-> << >>, reply |-> NoReply]
        /\ UNCHANGED <<apps, current_time, audit_log, audit_head, clock, cnode,
                       halted, call, ncalls, hist, written>>

Next == RecvCapability \/ RecvRevoke \/ RecvQuery \/ RecvBadTag \/ Tick

Spec == Init /\ [][Next]_vars

-----------------------------------------------------------------------------
(* Properties of the grant store, checked under SpecDB *)

(* the instant the last grant of (id, n) runs out, for a finite duration *)
HistExpiry(h) == h.at + h.dur[1] * 1000

(* the grant records the store holds for (id, n) *)
GrantRecords(a, app_id, cap) ==
    {<<e, i>> \in (1 .. MAX_APPS) \X (1 .. MAX_GRANTS_PER_APP) :
        /\ a[e] # None
        /\ a[e][1].app_id = app_id
        /\ i <= Len(a[e][1].grants)
        /\ a[e][1].grants[i].cap_name = PadName(cap)}

GrantAt(a, p) == a[p[1]][1].grants[p[2]]

(* C1: once grant(id, n, d) has returned Ok, is_granted(id, n) returns     *)
(* true at every instant before the grant's expiry time, until a           *)
(* revoke(id, n).                                                          *)
C1_GrantedUntilExpiryOrRevoke ==
    \A app_id \in Badges, cap \in DbNames :
        LET h == hist[app_id][cap]
            r == is_granted(DB, app_id, cap)
        IN  (h.st = "granted" /\ (h.dur = None \/ clock < HistExpiry(h)))
                => (~r.panic /\ r.ret = TRUE)

C1_Witness ==
    /\ call.op = "is_granted" /\ call.ret = "true"
    /\ hist[call.app_id][call.cap].st = "granted"
    /\ hist[call.app_id][call.cap].dur = Some(1)
    /\ call.now > hist[call.app_id][call.cap].at
    /\ call.now = clock

(* C2: after grant(id, n, Some(d)), d = 0 and a grant at clock 0 included, *)
(* once the clock is past granted_at + d, is_granted(id, n) returns false  *)
(* with no revoke issued.                                                  *)
C2_ExpiresWithoutRevoke ==
    \A app_id \in Badges, cap \in DbNames :
        LET h == hist[app_id][cap]
        IN  (h.st = "granted" /\ h.dur # None /\ clock > HistExpiry(h))
                => is_granted(DB, app_id, cap).ret = FALSE

(* C3: after revoke(id, n), is_granted(id, n) returns false at every later *)
(* clock value, until a later grant(id, n, _).                             *)
C3_RevokedStaysRevoked ==
    \A app_id \in Badges, cap \in DbNames :
        hist[app_id][cap].st = "revoked"
            => LET r == is_granted(DB, app_id, cap) IN ~r.panic /\ r.ret = FALSE

C3_Witness ==
    /\ call.op = "is_granted" /\ call.ret = "false"
    /\ hist[call.app_id][call.cap].st = "revoked"
    /\ \E p \in GrantRecords(apps, call.app_id, call.cap) :
          /\ ~GrantAt(apps, p).active
          /\ GrantAt(apps, p).expires_at = 0
    /\ call.now > hist[call.app_id][call.cap].at

(* C4: a second revoke(id, n) returns Ok and leaves the store as the first *)
(* left it; a second grant(id, n, d) with the same duration returns Ok and *)
(* leaves exactly one grant record for (id, n), which is active.           *)
C4_Idempotent ==
    /\ (call.op = "revoke" /\ call.ret = "Ok") =>
          LET r == revoke(DB, call.app_id, call.cap)
          IN  /\ ~r.panic /\ r.ret = "Ok"
              /\ r.db.apps = apps
              /\ r.db.audit_log = audit_log
              /\ r.db.audit_head = audit_head
    /\ (call.op = "grant" /\ call.ret = "Ok") =>
          LET r == grant(DB, call.app_id, call.cap, call.dur)
              recs == GrantRecords(r.db.apps, call.app_id, call.cap)
          IN  /\ ~r.panic /\ r.ret = "Ok"
              /\ Cardinality(recs) = 1
              /\ \A p \in recs : GrantAt(r.db.apps, p).active

C4_Witness ==
    /\ call.op = "revoke" /\ call.ret = "Ok"
    /\ \E p \in GrantRecords(apps, call.app_id, call.cap) : ~GrantAt(apps, p).active
    /\ \E e \in 1 .. MAX_APPS : apps[e] # None /\ Len(apps[e][1].grants) = 2

C4_WitnessGrant ==
    /\ call.op = "grant" /\ call.ret = "Ok"
    /\ \E e \in 1 .. MAX_APPS : apps[e] # None /\ Len(apps[e][1].grants) = 2

(* C5: is_granted(id, n) returns true iff the store holds a grant for      *)
(* (id, n) that is active and either permanent or not yet expired; and a   *)
(* grant stored with a finite duration is never a permanent one.           *)
C5_GrantedIffLive ==
    \A app_id \in Badges, cap \in DbNames :
        LET recs == GrantRecords(apps, app_id, cap)
            h == hist[app_id][cap]
        IN  /\ is_granted(DB, app_id, cap).ret =
                  (\E p \in recs :
                      /\ GrantAt(apps, p).active
                      /\ (GrantAt(apps, p).expires_at = 0
                            \/ clock < GrantAt(apps, p).expires_at))
            /\ (h.st = "granted" /\ h.dur # None)
                  => \A p \in recs : GrantAt(apps, p).expires_at # 0

-----------------------------------------------------------------------------
(* Properties of the request loop, checked under Spec *)

Issued(syscalls, op) == \E i \in 1 .. Len(syscalls) : syscalls[i][1] = op

(* the request of the last iteration was decoded and its badge verified *)
Verified(l) ==
    /\ l.tag \in {0, 1, 2}
    /\ Len(l.syscalls) >= 1
    /\ l.syscalls[1][1] = "cap_verify"
    /\ l.syscalls[1][4] = 0

(* cap_verify refused the badge of the last request *)
Unverified(l) ==
    /\ l.tag \in {0, 1, 2}
    /\ Len(l.syscalls) >= 1
    /\ l.syscalls[1][1] = "cap_verify"
    /\ l.syscalls[1][4] # 0

(* the step is one iteration of the loop *)
Handled == nreq' = nreq + 1

(* what the store holds: the identities with an AppEntry and the           *)
(* (identity, name) pairs with a grant record, active or tombstoned        *)
StoreEntries(a) ==
    {<<"app", a[e][1].app_id>> : e \in {x \in 1 .. MAX_APPS : a[x] # None}}
    \cup UNION {{<<"grant", a[e][1].app_id, a[e][1].grants[i].cap_name>> :
                    i \in 1 .. Len(a[e][1].grants)} :
                e \in {x \in 1 .. MAX_APPS : a[x] # None}}

(* the app's CNode holds, at the delegation slot, the capability that a    *)
(* delegation of the name puts there                                       *)
HoldsCapFor(cn, app_id, cap) ==
    /\ cn[app_id] # None
    /\ resolve_system_capability(cap).ok
    /\ cn[app_id][1].origin = resolve_system_capability(cap).slot
    /\ cn[app_id][1].rights = calculate_attenuated_rights(cap)

(* C6: after every completed request, for every app and Clear-Name, the    *)
(* store reports the name as currently granted iff the app's capability    *)
(* table holds the capability delegated for that name.                     *)
C6_StoreAgreesWithKernel ==
    ~halted =>
        \A app_id \in Badges, cap \in ReqNames :
            is_granted(DB, app_id, cap).ret = HoldsCapFor(cnode, app_id, cap)

(* C7: every decoded request is verified before anything else is done      *)
(* for it; a request whose badge does not verify is answered               *)
(* Error(AccessDenied), issues no syscall besides cap_verify, and leaves   *)
(* apps, grants and the audit log as they were.                            *)
C7_UnverifiedRequestRejected ==
    [][Handled =>
          /\ last'.tag \in {0, 1, 2} =>
                /\ Len(last'.syscalls) >= 1
                /\ last'.syscalls[1][1] = "cap_verify"
                /\ \A i \in 2 .. Len(last'.syscalls) :
                      last'.syscalls[i][1] # "cap_verify"
          /\ Unverified(last') =>
                /\ last'.reply = Error("AccessDenied")
                /\ Len(last'.syscalls) = 1
                /\ apps' = apps
                /\ audit_log' = audit_log
                /\ audit_head' = audit_head
                /\ current_time' = current_time
                /\ ~halted']_vars

C7_Witness ==
    /\ Unverified(last)
    /\ last.tag = 0
    /\ last.name = NameField(CAMERA_USE)
    /\ last.reply = Error("AccessDenied")
    /\ \E e \in 1 .. MAX_APPS : apps[e] # None /\ apps[e][1].app_id # last.badge
    /\ \A e \in 1 .. MAX_APPS : apps[e] # None => apps[e][1].app_id # last.badge

(* C8: a Capability request for a Clear-Name the Name Resolver does not    *)
(* know is answered Error(Invalid), and the store holds no AppEntry and no *)
(* grant record after it that was not there before.                        *)
C8_UnknownNameInvalidNoEntry ==
    [][(/\ Handled
        /\ Verified(last')
        /\ last'.tag = 0
        /\ resolve_system_capability(null_terminated_str(last'.name)).err = "Invalid")
          => /\ last'.reply = Error("Invalid")
             /\ StoreEntries(apps') \subseteq StoreEntries(apps)]_vars

ForbiddenRequest(l) ==
    /\ Verified(l)
    /\ l.tag = 0
    /\ null_terminated_str(l.name) \in {NETWORK_INBOUND, FILES_SYSTEM_WRITE}

NoRoomFor(a, app_id, cap) ==
    LET es == {e \in 1 .. MAX_APPS : a[e] # None /\ a[e][1].app_id = app_id}
    IN  IF es = {} THEN \A e \in 1 .. MAX_APPS : a[e] # None
        ELSE /\ GrantRecords(a, app_id, cap) = {}
             /\ \A e \in es : Len(a[e][1].grants) >= MAX_GRANTS_PER_APP

C10_CriticalWithoutPresenceDenied ==
    [][(/\ Handled
        /\ Verified(last')
        /\ last'.tag = 0
        /\ \E i \in 1 .. Len(last'.syscalls) :
              /\ last'.syscalls[i][1] = "hardware_attest"
              /\ last'.syscalls[i][3] = "absent")
          => /\ ~Issued(last'.syscalls, "prompt")
             /\ ~Issued(last'.syscalls, "cap_transfer")
             /\ StoreEntries(apps') \subseteq StoreEntries(apps)
             /\ last'.reply = Denied]_vars

(* the last request is a verified Capability request of the given risk *)
RiskRequest(l, risk) ==
    /\ Verified(l)
    /\ l.tag = 0
    /\ assess_risk(null_terminated_str(l.name)) = risk

LatestEvent(log, head) == log[(head + AUDIT_LOG_LEN - 1) % AUDIT_LOG_LEN]

(* the user answered the prompt of the last request with a denial *)
ConsentDenied(l) ==
    \E i \in 1 .. Len(l.syscalls) :
        /\ l.syscalls[i][1] = "prompt"
        /\ l.syscalls[i][4] = "denied"

ActiveUnexpired(a, app_id, cap, now) ==
    \E p \in GrantRecords(a, app_id, cap) :
        /\ GrantAt(a, p).active
        /\ GrantAt(a, p).expires_at = 0 \/ now < GrantAt(a, p).expires_at

Count(syscalls, op) ==
    Cardinality({i \in 1 .. Len(syscalls) : syscalls[i][1] = op})

(* the results of the cap_mint and cap_transfer calls issued, if any *)
MintFailed(syscalls) ==
    \E i \in 1 .. Len(syscalls) : syscalls[i][1] = "cap_mint" /\ syscalls[i][4] < 0

TransferFailed(syscalls) ==
    \E i \in 1 .. Len(syscalls) : syscalls[i][1] = "cap_transfer" /\ syscalls[i][6] < 0

(* a verified Capability request arrives while its name is granted *)
WarmRequest ==
    /\ Handled
    /\ Verified(last')
    /\ last'.tag = 0
    /\ ActiveUnexpired(apps, last'.badge, null_terminated_str(last'.name), clock)

(* C13 as stated: a warm request invokes no prompt and no attestation,     *)
(* issues exactly one cap_transfer, leaves the stored expiry as it was,    *)
(* and is answered Granted when the kernel calls succeed.                  *)
C13_WarmOneTransfer ==
    [][WarmRequest =>
          /\ ~Issued(last'.syscalls, "prompt")
          /\ ~Issued(last'.syscalls, "hardware_attest")
          /\ Count(last'.syscalls, "cap_transfer") = 1
          /\ apps' = apps
          /\ (~MintFailed(last'.syscalls) /\ ~TransferFailed(last'.syscalls))
                => last'.reply = Granted]_vars

(* C13 amended: a warm request invokes no prompt and no attestation and    *)
(* leaves the grant records as they were; it issues exactly one            *)
(* cap_transfer, or none when the cap_mint of a path-scoped name fails;    *)
(* the reply is Granted when the kernel calls succeed and the kernel's     *)
(* error otherwise.                                                        *)
C13_WarmGrant ==
    [][WarmRequest =>
          /\ ~Issued(last'.syscalls, "prompt")
          /\ ~Issued(last'.syscalls, "hardware_attest")
          /\ Count(last'.syscalls, "cap_transfer") =
                IF MintFailed(last'.syscalls) THEN 0 ELSE 1
          /\ apps' = apps
          /\ IF MintFailed(last'.syscalls) \/ TransferFailed(last'.syscalls)
             THEN last'.reply[1] = "Error"
             ELSE last'.reply = Granted]_vars

C13_Witness ==
    /\ Verified(last)
    /\ last.tag = 0
    /\ nreq >= 2
    /\ ~Issued(last.syscalls, "prompt")
    /\ Count(last.syscalls, "cap_transfer") = 1
    /\ last.reply = Granted
    /\ ActiveUnexpired(apps, last.badge, null_terminated_str(last.name), clock)

(* the store holds an active grant of n to id that has run out at now *)
ActiveExpired(a, app_id, cap, now) ==
    \E p \in GrantRecords(a, app_id, cap) :
        /\ GrantAt(a, p).active
        /\ GrantAt(a, p).expires_at # 0
        /\ now >= GrantAt(a, p).expires_at

(* a verified Capability request arrives after its grant has expired *)
ExpiredRequest ==
    /\ Handled
    /\ Verified(last')
    /\ last'.tag = 0
    /\ ~halted'
    /\ ActiveExpired(apps, last'.badge, null_terminated_str(last'.name), clock)

(* the request's grant is renewed in the slot it had: one record, with     *)
(* expires_at = time of the request + default lifetime                     *)
RenewedInPlace ==
    LET cap == null_terminated_str(last'.name)
    IN  /\ Cardinality(GrantRecords(apps', last'.badge, cap)) = 1
        /\ GrantRecords(apps', last'.badge, cap) = GrantRecords(apps, last'.badge, cap)
        /\ \A p \in GrantRecords(apps', last'.badge, cap) :
              GrantAt(apps', p).expires_at =
                  clock + 1000 * default_duration(assess_risk(cap))

ColdRequest ==
    /\ Handled
    /\ Verified(last')
    /\ last'.tag = 0
    /\ ~halted'
    /\ ~ConsentDenied(last')
    /\ resolve_system_capability(null_terminated_str(last'.name)).ok
    /\ GrantRecords(apps, last'.badge, null_terminated_str(last'.name)) = {}

(* what the claim expects of a cold grant *)
ColdGranted ==
    LET cap == null_terminated_str(last'.name)
        recs == GrantRecords(apps', last'.badge, cap)
        lifetime == IF cap = CAMERA_USE THEN 60000
                    ELSE 1000 * default_duration(assess_risk(cap))
        rights == IF cap = CAMERA_USE THEN {"READ", "WRITE"}
                  ELSE calculate_attenuated_rights(cap)
    IN  /\ last'.reply = Granted
        /\ Issued(last'.syscalls, "prompt")
        /\ Cardinality(recs) = 1
        /\ \A p \in recs : /\ GrantAt(apps', p).active
                           /\ GrantAt(apps', p).expires_at = clock + lifetime
        /\ Count(last'.syscalls, "cap_transfer") = 1
        /\ \A i \in 1 .. Len(last'.syscalls) :
              last'.syscalls[i][1] = "cap_transfer" =>
                  /\ last'.syscalls[i][3] = last'.badge
                  /\ last'.syscalls[i][4] = APP_DELEGATION_SLOT
                  /\ last'.syscalls[i][5] = rights

(* C15 as stated: an approved Capability request for a resolvable name n   *)
(* by an app with no prior grant of n is answered Granted, the store holds *)
(* one grant for (id, n) with expires_at = now + 1000 * default lifetime   *)
(* (60000 ms for camera.use), and one cap_transfer is issued, to cnode id  *)
(* at APP_DELEGATION_SLOT with the attenuated rights (READ|WRITE for       *)
(* camera.use).                                                            *)
C15_ColdGrantAlwaysGranted == [][ColdRequest => ColdGranted]_vars

(* C15 amended: the same holds when the store has room for the grant and   *)
(* the kernel calls succeed; with no room the reply is Error(NoMem) and    *)
(* nothing is delegated; when cap_mint or cap_transfer fails the reply is  *)
(* an Error and the one record for (id, n) is left tombstoned.             *)
C15_ColdGrant ==
    [][ColdRequest =>
          LET cap == null_terminated_str(last'.name)
              recs == GrantRecords(apps', last'.badge, cap)
          IN  IF NoRoomFor(apps, last'.badge, cap)
              THEN /\ last'.reply = Error("NoMem")
                   /\ recs = {}
                   /\ ~Issued(last'.syscalls, "cap_mint")
                   /\ ~Issued(last'.syscalls, "cap_transfer")
              ELSE IF MintFailed(last'.syscalls) \/ TransferFailed(last'.syscalls)
              THEN /\ last'.reply[1] = "Error"
                   /\ Cardinality(recs) = 1
                   /\ \A p \in recs : ~GrantAt(apps', p).active
              ELSE ColdGranted]_vars

C15_Witness ==
    /\ Verified(last)
    /\ last.tag = 0
    /\ last.name = NameField(CAMERA_USE)
    /\ last.reply = Granted
    /\ last.syscalls = <<<<"cap_verify", last.badge, THREAD_CAP, 0>>,
                         <<"prompt", last.badge, "High", "approved">>,
                         <<"cap_transfer", SYSTEM_CAMERA_CAP, last.badge,
                           APP_DELEGATION_SLOT, {"READ", "WRITE"}, 0>>>>
    /\ \E p \in GrantRecords(apps, last.badge, CAMERA_USE) :
          /\ GrantAt(apps, p).active
          /\ GrantAt(apps, p).granted_at = current_time
          /\ GrantAt(apps, p).expires_at = current_time + 60000

(* a verified Revoke request *)
RevokeRequest ==
    /\ Handled
    /\ Verified(last')
    /\ last'.tag = 1
    /\ ~halted'

(* the Revoke request names a grant the store reports as granted *)
GrantedBefore ==
    ActiveUnexpired(apps, last'.badge, null_terminated_str(last'.name), clock)

(* the one syscall of a Revoke request after cap_verify: cap_revoke on the *)
(* delegation slot of the requesting app                                   *)
RevokeCallIssued ==
    /\ Len(last'.syscalls) = 2
    /\ last'.syscalls[2][1] = "cap_revoke"
    /\ last'.syscalls[2][2] = last'.badge
    /\ last'.syscalls[2][3] = APP_DELEGATION_SLOT

(* the grant of the request's name is tombstoned and no longer granted *)
TombstonedAfter ==
    LET cap == null_terminated_str(last'.name)
    IN  /\ GrantRecords(apps', last'.badge, cap) = GrantRecords(apps, last'.badge, cap)
        /\ \A p \in GrantRecords(apps', last'.badge, cap) : ~GrantAt(apps', p).active
        /\ ~is_granted([apps |-> apps', current_time |-> current_time',
                        audit_log |-> audit_log', audit_head |-> audit_head'],
                       last'.badge, cap).ret

(* C16 as stated: a Revoke request for a granted name issues cap_revoke on *)
(* the requesting app's delegation slot, tombstones the store grant,       *)
(* replies Revoked and leaves is_granted false; a repeated Revoke request  *)
(* replies Revoked as well.                                                *)
C16_RevokeAlwaysRevoked ==
    [][RevokeRequest =>
          /\ RevokeCallIssued
          /\ last'.reply = Revoked
          /\ GrantedBefore => TombstonedAfter]_vars

(* C16 amended: cap_revoke is issued first; when it succeeds or reports    *)
(* NoCap the store grant is tombstoned, the reply is Revoked and           *)
(* is_granted is false afterwards, for a first and for a repeated Revoke;  *)
(* any other kernel error is the reply and the store grants stay as they   *)
(* were.                                                                   *)
C16_RevokeRoundTrip ==
    [][RevokeRequest =>
          /\ RevokeCallIssued
          /\ IF last'.syscalls[2][4] < 0 /\ last'.syscalls[2][4] # -2
             THEN /\ last'.reply = Error(from_raw(last'.syscalls[2][4]))
                  /\ apps' = apps
             ELSE /\ last'.reply = Revoked
                  /\ TombstonedAfter]_vars

C16_Witness ==
    /\ Verified(last)
    /\ last.tag = 1
    /\ last.reply = Revoked
    /\ last.name = NameField(CAMERA_USE)
    /\ last.syscalls[2] = <<"cap_revoke", last.badge, APP_DELEGATION_SLOT, 0>>
    /\ LatestEvent(audit_log, audit_head) =
          [timestamp |-> current_time, app_id |-> last.badge, action |-> "Revoke",
           cap_name |-> PadName(CAMERA_USE), success |-> TRUE]
    /\ \E p \in GrantRecords(apps, last.badge, CAMERA_USE) : ~GrantAt(apps, p).active
    /\ cnode[last.badge] = None

-----------------------------------------------------------------------------
(* Properties of the audit ring, checked under SpecAudit; ncalls is the    *)
(* number w of audit writes made                                           *)

(* the events of the ring in the order they were written: the n slots      *)
(* before the head, oldest first                                           *)
RingEvents(log, head, n) ==
    [i \in 1 .. n |-> log[(head + AUDIT_LOG_LEN - n + i - 1) % AUDIT_LOG_LEN]]

(* after w audit writes the ring holds exactly the min(w, M) most recent   *)
(* events, each as it was written, and audit_head is within 0 .. M-1       *)
RingHoldsMostRecent ==
    /\ audit_head \in 0 .. AUDIT_LOG_LEN - 1
    /\ audit_head = ncalls % AUDIT_LOG_LEN
    /\ Len(written) = Min(ncalls, AUDIT_LOG_LEN)
    /\ RingEvents(audit_log, audit_head, Min(ncalls, AUDIT_LOG_LEN)) = written

(* a write to a full ring changes only the slot of the oldest event *)
OverwritesOnlyOldest ==
    (ncalls' = ncalls + 1 /\ ncalls >= AUDIT_LOG_LEN) =>
          /\ audit_log[audit_head] = written[1]
          /\ \A i \in 0 .. AUDIT_LOG_LEN - 1 :
                i # audit_head => audit_log'[i] = audit_log[i]

(* C17: after any number w of audit writes, up to 10 * M, the ring holds   *)
(* exactly the min(w, M) most recent events, each unmodified since it was  *)
(* written; a write to a full ring overwrites only the oldest event, and   *)
(* audit_head stays within 0 .. M-1.                                       *)
C17_AuditRing == []RingHoldsMostRecent /\ [][OverwritesOnlyOldest]_vars

C17_Witness ==
    /\ ncalls = 10 * AUDIT_LOG_LEN
    /\ Len(written) = AUDIT_LOG_LEN
    /\ written[1] # written[AUDIT_LOG_LEN]
    /\ RingEvents(audit_log, audit_head, AUDIT_LOG_LEN) = written

(* two slices hold the same events the same number of times *)
SameEvents(s, t) ==
    /\ Len(s) = Len(t)
    /\ \A i \in 1 .. Len(s) :
          Cardinality({j \in 1 .. Len(s) : s[j] = s[i]}) =
          Cardinality({j \in 1 .. Len(t) : t[j] = s[i]})

(* C18: for every count up to M and to the number of audit writes made,    *)
(* get_recent_events(count) returns exactly the count most recently        *)
(* written audit events.                                                   *)
C18_RecentReturnsMostRecent ==
    \A count \in 0 .. Min(ncalls, AUDIT_LOG_LEN) :
        SameEvents(get_recent_events(DB, count),
                   SubSeq(written, Len(written) - count + 1, Len(written)))

-----------------------------------------------------------------------------
(* Further properties of the request loop, checked under Spec *)

(* C19: the request loop never aborts: whatever messages arrive and        *)
(* whatever the kernel answers, the service never enters its panic handler *)
(* and is back at the blocking receive after every message.                *)
C19_LoopNeverAborts == ~halted

(* the slots of the Policy Service's own CNode that hold master capabilities *)
MasterSlots ==
    {SYSTEM_CAMERA_CAP, SYSTEM_NET_OUTBOUND_CAP, SYSTEM_NET_LOCAL_CAP,
     SYSTEM_FS_HOME_CAP, SYSTEM_FS_SYSTEM_CAP, SYSTEM_PROCESS_SPAWN_CAP,
     SYSTEM_PROCESS_SIGNAL_CAP, SYSTEM_AUDIO_OUT_CAP, SYSTEM_AUDIO_IN_CAP,
     SYSTEM_GPU_RENDER_CAP}

(* C20: the capability handed to cap_transfer is always a derived one: the *)
(* handle a cap_mint of the same request returned, never one of the master *)
(* system-capability slots.                                                *)
C20_OnlyDerivedTransferred ==
    \A i \in 1 .. Len(last.syscalls) :
        last.syscalls[i][1] = "cap_transfer" =>
            /\ last.syscalls[i][2] \notin MasterSlots
            /\ \E j \in 1 .. i - 1 :
                  /\ last.syscalls[j][1] = "cap_mint"
                  /\ last.syscalls[j][4] = last.syscalls[i][2]

-----------------------------------------------------------------------------
(* Structural properties of the grant store, checked under SpecDB *)

(* C21: within one AppEntry no two grant records, active or tombstoned,    *)
(* carry the same Clear-Name.                                              *)
C21_NamesUniquePerApp ==
    \A e \in 1 .. MAX_APPS :
        apps[e] # None =>
            \A i, j \in 1 .. Len(apps[e][1].grants) :
                i # j => apps[e][1].grants[i].cap_name # apps[e][1].grants[j].cap_name

(* a name granted again at a later time to an app that holds one record:  *)
(* the grant went to the record the name had                               *)
C21_Witness ==
    /\ call.op = "grant" /\ call.ret = "Ok"
    /\ \E e \in 1 .. MAX_APPS :
          /\ apps[e] # None
          /\ apps[e][1].app_id = call.app_id
          /\ Len(apps[e][1].grants) = 1
          /\ apps[e][1].grants[1].cap_name = PadName(call.cap)
          /\ apps[e][1].grants[1].granted_at < call.now

(* C22: the apps array holds at most one AppEntry per identity.            *)
C22_OneEntryPerIdentity ==
    \A e, f \in 1 .. MAX_APPS :
        (apps[e] # None /\ apps[f] # None /\ e # f) =>
            apps[e][1].app_id # apps[f][1].app_id

(* every app slot is taken and a third call found the entry of its app *)
C22_Witness ==
    /\ ncalls = MaxCalls
    /\ call.op = "grant" /\ call.ret = "Ok"
    /\ \A e \in 1 .. MAX_APPS : apps[e] # None
    /\ \E e \in 1 .. MAX_APPS :
          apps[e][1].app_id = call.app_id /\ Len(apps[e][1].grants) = 2

(* C23: every grant record with a non-permanent expiry has                 *)
(* granted_at <= expires_at, also after it was renewed or granted again.   *)
C23_GrantedBeforeExpiry ==
    \A e \in 1 .. MAX_APPS :
        apps[e] # None =>
            \A i \in 1 .. Len(apps[e][1].grants) :
                apps[e][1].grants[i].expires_at # 0 =>
                    apps[e][1].grants[i].granted_at <= apps[e][1].grants[i].expires_at

(* a record renewed with lifetime 0 at a later time than it was granted *)
C23_Witness ==
    /\ call.op = "grant" /\ call.ret = "Ok" /\ call.dur = Some(0)
    /\ \E p \in GrantRecords(apps, call.app_id, call.cap) :
          /\ GrantAt(apps, p).granted_at < call.now
          /\ GrantAt(apps, p).expires_at = call.now
          /\ GrantAt(apps, p).active

-----------------------------------------------------------------------------
(* The risk classifier as a pure function: the initial state draws a name  *)
(* and the one action classifies it.                                       *)

L_usb_ == <<"u","s","b",".">>
L_x == <<"x">>

RiskPrefixes ==
    {L_system_, L_disk_, L_admin_, L_camera_, L_microphone_, L_location_,
     L_biometric_, L_network_, L_files_, L_process_, L_graphics_, L_gpu_,
     L_audio_out, L_audio_in, L_usb_, EMPTY_NAME}

RiskKeywords ==
    {L_restore, L_configure, L_local, L_lan, L_system, L_etc, L_home,
     L_documents, L_download, L_temp, L_kill, L_debug, L_x, EMPTY_NAME}

RiskNames == {p \o k1 \o k2 : p \in RiskPrefixes, k1 \in RiskKeywords,
                               k2 \in RiskKeywords}

InitRisk ==
    /\ apps = [i \in 1 .. MAX_APPS |-> None]
    /\ current_time = 0
    /\ audit_log = [i \in 0 .. AUDIT_LOG_LEN - 1 |->
                      [timestamp |-> 0, app_id |-> 0, action |-> "Query",
                       cap_name |-> PadName(EMPTY_NAME), success |-> FALSE]]
    /\ audit_head = 0
    /\ clock = 0
    /\ cnode = [b \in Badges |-> None]
    /\ halted = FALSE
    /\ nreq = 0
    /\ last = NoRequest
    /\ \E n \in RiskNames : call = [NoCall EXCEPT !.op = "input", !.cap = n]
    /\ ncalls = 0
    /\ hist = [b \in Badges |-> [n \in DbNames |-> NoHist]]
    /\ written = << >>

AssessRisk ==
    /\ call.op = "input"
    /\ call' = [call EXCEPT !.op = "assess_risk", !.ret = assess_risk(call.cap)]
    /\ ncalls' = ncalls + 1
    /\ UNCHANGED <<apps, current_time, audit_log, audit_head, clock, cnode,
                   halted, nreq, last, hist, written>>

NextRisk == AssessRisk

SpecRisk == InitRisk /\ [][NextRisk]_vars

(* the priority table of the risk levels, first matching rule wins *)
RiskRules(n) ==
    << [when |-> \/ starts_with(n, L_system_) \/ starts_with(n, L_disk_)
                 \/ starts_with(n, L_admin_)
                 \/ contains(n, L_restore) \/ contains(n, L_configure),
        level |-> "Critical"],
       [when |-> \/ starts_with(n, L_camera_) \/ starts_with(n, L_microphone_)
                 \/ starts_with(n, L_location_) \/ starts_with(n, L_biometric_),
        level |-> "High"],
       [when |-> starts_with(n, L_network_),
        level |-> IF contains(n, L_local) \/ contains(n, L_lan)
                  THEN "High" ELSE "Medium"],
       [when |-> starts_with(n, L_files_),
        level |-> IF contains(n, L_system) \/ contains(n, L_etc) THEN "High"
                  ELSE IF contains(n, L_home) \/ contains(n, L_documents)
                  THEN "Medium"
                  ELSE IF contains(n, L_download) \/ contains(n, L_temp)
                  THEN "Low"
                  ELSE "Medium"],
       [when |-> starts_with(n, L_process_),
        level |-> IF contains(n, L_kill) \/ contains(n, L_debug)
                  THEN "High" ELSE "Medium"],
       [when |-> starts_with(n, L_graphics_) \/ starts_with(n, L_gpu_),
        level |-> "Medium"],
       [when |-> starts_with(n, L_audio_in), level |-> "High"],
       [when |-> starts_with(n, L_audio_out), level |-> "Low"],
       [when |-> TRUE, level |-> "Medium"] >>

FirstRule(n) == CHOOSE i \in 1 .. Len(RiskRules(n)) :
                   /\ RiskRules(n)[i].when
                   /\ \A j \in 1 .. i - 1 : ~RiskRules(n)[j].when

RiskTable(n) == RiskRules(n)[FirstRule(n)].level

(* C24: the level assess_risk returns for a name is the level of the first *)
(* rule of the priority table (Critical prefixes and keywords, hardware    *)
(* prefixes, network, files, process, graphics and gpu, audio.in and       *)
(* audio.out, default Medium) that the name matches, for every name.       *)
C24_RiskFollowsTable ==
    call.op = "assess_risk" =>
        /\ call.ret = RiskTable(call.cap)
        /\ call.ret \in {"Low", "Medium", "High", "Critical"}

(* a files name holding both a system and a temp keyword was classified    *)
(* High, where the classifier also yields each of the other three levels   *)
C24_Witness ==
    /\ call.op = "assess_risk"
    /\ call.cap = L_files_ \o L_system \o L_temp
    /\ call.ret = "High"
    /\ assess_risk(L_files_ \o L_temp \o L_restore) = "Critical"
    /\ assess_risk(L_files_ \o L_download) = "Low"
    /\ assess_risk(NETWORK_INBOUND) = "Medium"

-----------------------------------------------------------------------------
(* The name comparison of the store as a pure function: the initial state  *)
(* draws a stored name and a query name, the one action compares them.     *)

MaxShortName == 3

NameBytes == {"a", "b", "."}

ShortNames == UNION {[1 .. n -> NameBytes] : n \in 1 .. MaxShortName}

Repeat(c, n) == [i \in 1 .. n |-> c]

(* names of 30 and of 31 bytes, the longest a record holds *)
LongNames == {Repeat("a", CAP_NAME_LEN - 2),
              Repeat("a", CAP_NAME_LEN - 1),
              Repeat("a", CAP_NAME_LEN - 2) \o <<"b">>,
              Repeat("a", CAP_NAME_LEN - 3) \o <<"b">>}

MatchNames == ShortNames \cup LongNames \cup {CAMERA_US, CAMERA_USE}

InitMatch ==
    /\ apps = [i \in 1 .. MAX_APPS |-> None]
    /\ current_time = 0
    /\ audit_log = [i \in 0 .. AUDIT_LOG_LEN - 1 |->
                      [timestamp |-> 0, app_id |-> 0, action |-> "Query",
                       cap_name |-> PadName(EMPTY_NAME), success |-> FALSE]]
    /\ audit_head = 0
    /\ clock = 0
    /\ cnode = [b \in Badges |-> None]
    /\ halted = FALSE
    /\ nreq = 0
    /\ last = NoRequest
    /\ \E s \in MatchNames, q \in MatchNames :
          call = [op |-> "input", name |-> s, stored |-> PadName(s),
                  cap |-> q, ret |-> "none"]
    /\ ncalls = 0
    /\ hist = [b \in Badges |-> [n \in DbNames |-> NoHist]]
    /\ written = << >>

CapMatch ==
    /\ call.op = "input"
    /\ call' = [call EXCEPT
                  !.op = "cap_match",
                  !.ret = IF cap_match_panics(call.stored, call.cap)
                          THEN "panic"
                          ELSE BoolStr(cap_match(call.stored, call.cap))]
    /\ ncalls' = ncalls + 1
    /\ UNCHANGED <<apps, current_time, audit_log, audit_head, clock, cnode,
                   halted, nreq, last, hist, written>>

NextMatch == CapMatch

SpecMatch == InitMatch /\ [][NextMatch]_vars

-----------------------------------------------------------------------------
(* The store when it runs out of room: one identity more than there are    *)
(* app slots and one name more than an entry has grant slots, under        *)
(* direct grant calls and verified Capability requests.                    *)

MaxMemOps == 4

MemBadges == 1 .. MAX_APPS + 1

MemNames == {CAMERA_USE, FILES_HOME_READ, SYSTEM_RESTORE}

InitMem ==
    /\ apps = [i \in 1 .. MAX_APPS |-> None]
    /\ current_time = 0
    /\ audit_log = [i \in 0 .. AUDIT_LOG_LEN - 1 |->
                      [timestamp |-> 0, app_id |-> 0, action |-> "Query",
                       cap_name |-> PadName(EMPTY_NAME), success |-> FALSE]]
    /\ audit_head = 0
    /\ clock = 0
    /\ cnode = [b \in MemBadges |-> None]
    /\ halted = FALSE
    /\ nreq = 0
    /\ last = NoRequest
    /\ call = NoCall
    /\ ncalls = 0
    /\ hist = [b \in Badges |-> [n \in DbNames |-> NoHist]]
    /\ written = << >>

MemGrant ==
    /\ ~halted /\ ncalls + nreq < MaxMemOps
    /\ \E app_id \in MemBadges, cap \in MemNames :
        LET r == grant(DB, app_id, cap, None)
        IN  /\ SetDB(r.db)
            /\ halted' = r.panic
            /\ call' = [op |-> "grant", app_id |-> app_id, cap |-> cap,
                        dur |-> None, now |-> r.db.current_time,
                        ret |-> IF r.panic THEN "panic" ELSE r.ret]
            /\ ncalls' = ncalls + 1
            /\ UNCHANGED <<clock, cnode, nreq, last, hist, written>>

MemCapability ==
    /\ ~halted /\ ncalls + nreq < MaxMemOps
    /\ \E badge \in MemBadges, name \in MemNames :
        LET req == [tag |-> 0, name |-> NameField(name), thread_cap |-> THREAD_CAP]
        IN  Finish(badge, req,
                   main_iteration(DB, cnode, badge, req,
                                  [verify |-> 0, attest |-> "present",
                                   decision |-> "approved", mint |-> 60,
                                   transfer |-> 0, revoke |-> 0]))

NextMem == MemGrant \/ MemCapability

SpecMem == InitMem /\ [][NextMem]_vars

(* the step is a call of grant *)
GrantCalled == ncalls' = ncalls + 1 /\ call'.op = "grant"

(* the step handles a verified Capability request that finds no room *)
RequestWithoutRoom ==
    /\ Handled
    /\ last'.tag = 0
    /\ Verified(last')
    /\ NoRoomFor(apps, last'.badge, null_terminated_str(last'.name))

(* C26: grant returns NoMem exactly when the identity has no entry and     *)
(* every app slot is occupied, or the name has no record in the entry and  *)
(* the entry holds MAX_GRANTS_PER_APP records; it then leaves the apps and *)
(* their grants as they were, and a Capability request that runs into it   *)
(* is answered Error(NoMem) with no cap_transfer issued.                   *)
C26_NoMemExactlyWhenFull ==
    [][/\ GrantCalled =>
            /\ call'.ret = "NoMem" <=> NoRoomFor(apps, call'.app_id, call'.cap)
            /\ call'.ret = "NoMem" => apps' = apps
       /\ RequestWithoutRoom =>
            /\ last'.reply = Error("NoMem")
            /\ ~Issued(last'.syscalls, "cap_transfer")
            /\ apps' = apps]_vars

(* with every app slot taken by others, a grant call of one more identity  *)
(* returned NoMem and then its Capability request was answered             *)
(* Error(NoMem) without a cap_transfer                                     *)
C26_Witness ==
    /\ call.op = "grant" /\ call.ret = "NoMem"
    /\ \A e \in 1 .. MAX_APPS : apps[e] # None /\ apps[e][1].app_id # call.app_id
    /\ last.tag = 0 /\ last.badge = call.app_id
    /\ Verified(last)
    /\ last.reply = Error("NoMem")
    /\ ~Issued(last.syscalls, "cap_transfer")

-----------------------------------------------------------------------------
(* Replies and failure handling of the request loop, checked under Spec *)

(* C27: a message whose first byte is not 0, 1 or 2 is answered with the   *)
(* reply Error(Invalid), and the store is left as it was.                  *)
C27_BadTagAnsweredInvalid ==
    [][(Handled /\ last'.tag \notin {0, 1, 2}) =>
          /\ last'.reply = Error("Invalid")
          /\ apps' = apps]_vars

(* the names a List reply carries *)
Listed(reply) == {reply[2][i] : i \in 1 .. Len(reply[2])}

(* C28: a verified Query request is answered with a List reply that holds  *)
(* exactly the names granted to the caller at that moment, active and      *)
(* unexpired.                                                              *)
C28_QueryListsGranted ==
    [][(Handled /\ last'.tag = 2 /\ Verified(last')) =>
          /\ last'.reply[1] = "List"
          /\ \A n \in ReqNames \ {EMPTY_NAME} :
                n \in Listed(last'.reply) <=>
                    ActiveUnexpired(apps', last'.badge, n, clock)]_vars

(* C29: when cap_mint succeeded and the cap_transfer after it returned an  *)
(* error, a cap_delete of the minted handle is issued after the transfer.  *)
C29_MintedDestroyedOnFailure ==
    [][(Handled /\ last'.tag = 0) =>
          \A i \in 1 .. Len(last'.syscalls) :
            \A j \in 1 .. Len(last'.syscalls) :
              ( /\ last'.syscalls[i][1] = "cap_mint"
                /\ last'.syscalls[i][4] >= 0
                /\ j > i
                /\ last'.syscalls[j][1] = "cap_transfer"
                /\ last'.syscalls[j][6] < 0 )
              => \E d \in j + 1 .. Len(last'.syscalls) :
                    /\ last'.syscalls[d][1] = "cap_delete"
                    /\ last'.syscalls[d][2] = last'.syscalls[i][4]]_vars

(* the result of the cap_mint or cap_transfer call that failed *)
KernelResult(syscalls) ==
    LET i == CHOOSE i \in 1 .. Len(syscalls) :
                 \/ syscalls[i][1] = "cap_mint" /\ syscalls[i][4] < 0
                 \/ syscalls[i][1] = "cap_transfer" /\ syscalls[i][6] < 0
    IN  IF syscalls[i][1] = "cap_mint" THEN syscalls[i][4] ELSE syscalls[i][6]

(* the step wrote a successful Grant event for (app_id, cap) to the ring *)
GainsGrantSuccess(app_id, cap) ==
    \E i \in 0 .. AUDIT_LOG_LEN - 1 :
        /\ audit_log'[i] # audit_log[i]
        /\ audit_log'[i].action = "Grant"
        /\ audit_log'[i].success
        /\ audit_log'[i].app_id = app_id
        /\ audit_log'[i].cap_name = PadName(cap)

(* C30: when cap_mint or cap_transfer fails for a Capability request, the  *)
(* reply is the kernel's error and the audit log gains no Grant event      *)
(* with success = true for the request's identity and name.                *)
C30_NoGrantEventOnKernelError ==
    [][(/\ Handled /\ last'.tag = 0
        /\ MintFailed(last'.syscalls) \/ TransferFailed(last'.syscalls)) =>
          /\ last'.reply = Error(from_raw(KernelResult(last'.syscalls)))
          /\ ~GainsGrantSuccess(last'.badge,
                                null_terminated_str(last'.name))]_vars

-----------------------------------------------------------------------------
(* Revocation, expiry and delegation details *)

(* the result the kernel gave to the cap_revoke of the last Revoke request *)
RevokeResult(l) == l.syscalls[2][4]

(* C31: in a Revoke request a cap_revoke result of NoCap (-2) counts as    *)
(* success: the store revoke runs and the reply is Revoked; any other      *)
(* kernel error is the reply, and the store, a granted record included,    *)
(* stays as it was.                                                        *)
C31_NoCapCountsAsSuccess ==
    [][RevokeRequest =>
          LET cap == null_terminated_str(last'.name)
              rv == revoke(DB, last'.badge, cap)
          IN  /\ RevokeResult(last') = -2 =>
                    /\ last'.reply = Revoked
                    /\ apps' = rv.db.apps
                    /\ audit_log' = rv.db.audit_log
                    /\ GrantedBefore => TombstonedAfter
              /\ (RevokeResult(last') < 0 /\ RevokeResult(last') # -2) =>
                    /\ last'.reply = Error(from_raw(RevokeResult(last')))
                    /\ apps' = apps
                    /\ audit_log' = audit_log
                    /\ GrantedBefore =>
                          ActiveUnexpired(apps', last'.badge, cap, clock)]_vars

(* a Revoke request whose cap_revoke reported NoCap was answered Revoked   *)
(* and the store holds the grant of camera.use as a tombstone, its Revoke  *)
(* event being the latest of the ring                                      *)
C31_Witness ==
    /\ Verified(last)
    /\ last.tag = 1
    /\ last.name = NameField(CAMERA_USE)
    /\ RevokeResult(last) = -2
    /\ last.reply = Revoked
    /\ LatestEvent(audit_log, audit_head).action = "Revoke"
    /\ LatestEvent(audit_log, audit_head).app_id = last.badge
    /\ LatestEvent(audit_log, audit_head).cap_name = PadName(CAMERA_USE)
    /\ \E p \in GrantRecords(apps, last.badge, CAMERA_USE) : ~GrantAt(apps, p).active

-----------------------------------------------------------------------------
(* The store under direct calls, is_expired among them *)

DbIsExpired ==
    /\ ~halted /\ ncalls < MaxCalls
    /\ \E app_id \in Badges, cap \in DbNames :
        LET r == is_expired(DB, app_id, cap)
        IN  /\ DbCall("is_expired", app_id, cap, None, r, BoolStr(r.ret))
            /\ UNCHANGED hist

NextExp == DbGrant \/ DbRevoke \/ DbIsGranted \/ DbIsExpired \/ TickDB

SpecExp == Init /\ [][NextExp]_vars

(* C32: in every store state, for every identity and name, is_expired      *)
(* returns the negation of what is_granted returns at the same clock       *)
(* value; with no AppEntry or no record of the name it returns true.       *)
C32_ExpiredNegatesGranted ==
    /\ \A app_id \in Badges, cap \in DbNames :
          LET e == is_expired(DB, app_id, cap)
              g == is_granted(DB, app_id, cap)
          IN  /\ ~e.panic /\ ~g.panic
              /\ e.ret = ~g.ret
              /\ GrantRecords(apps, app_id, cap) = {} => e.ret
    /\ (call.op = "is_expired" /\ call.now = clock) =>
          call.ret = BoolStr(~is_granted(DB, call.app_id, call.cap).ret)

(* is_expired was called at the very instant an active grant expires and   *)
(* returned true                                                           *)
C32_Witness ==
    /\ call.op = "is_expired"
    /\ call.ret = "true"
    /\ call.now # 0
    /\ \E p \in GrantRecords(apps, call.app_id, call.cap) :
          /\ GrantAt(apps, p).active
          /\ GrantAt(apps, p).expires_at = call.now

-----------------------------------------------------------------------------
(* The delegator as a function of the name and of the kernel's answers:    *)
(* the initial state draws them, the one action delegates.                 *)

(* the names the resolver knows, the two forbidden ones included *)
ResolverNames ==
    {<<"c","a","m","e","r","a",".","u","s","e">>,
     <<"c","a","m","e","r","a",".","r","e","c","o","r","d">>,
     <<"n","e","t","w","o","r","k",".","o","u","t","b","o","u","n","d">>,
     <<"n","e","t","w","o","r","k",".","l","o","c","a","l">>,
     <<"n","e","t","w","o","r","k",".","i","n","b","o","u","n","d">>,
     <<"f","i","l","e","s",".","h","o","m","e",".","r","e","a","d">>,
     <<"f","i","l","e","s",".","h","o","m","e",".","w","r","i","t","e">>,
     <<"f","i","l","e","s",".","s","y","s","t","e","m",".","r","e","a","d">>,
     <<"f","i","l","e","s",".","s","y","s","t","e","m",".","w","r","i","t","e">>,
     <<"p","r","o","c","e","s","s",".","s","p","a","w","n">>,
     <<"p","r","o","c","e","s","s",".","s","i","g","n","a","l">>,
     <<"a","u","d","i","o",".","o","u","t">>,
     <<"a","u","d","i","o",".","i","n">>,
     <<"g","r","a","p","h","i","c","s",".","r","e","n","d","e","r">>,
     <<"g","p","u",".","c","o","m","p","u","t","e">>}

RightsStems == {<<"x">>, <<"f","i","l","e","s",".","x">>, <<"c","a","m","e","r","a">>}

RightsSuffixes == {L__write, L__use, L__grant, L__map, <<".","r","e","a","d">>, EMPTY_NAME}

DelegateNames ==
    ResolverNames \cup
    {st \o s1 \o s2 : st \in RightsStems, s1 \in RightsSuffixes, s2 \in RightsSuffixes}

InitDelegate ==
    /\ apps = [i \in 1 .. MAX_APPS |-> None]
    /\ current_time = 0
    /\ audit_log = [i \in 0 .. AUDIT_LOG_LEN - 1 |->
                      [timestamp |-> 0, app_id |-> 0, action |-> "Query",
                       cap_name |-> PadName(EMPTY_NAME), success |-> FALSE]]
    /\ audit_head = 0
    /\ clock = 0
    /\ cnode = [b \in Badges |-> None]
    /\ halted = FALSE
    /\ nreq = 0
    /\ last = NoRequest
    /\ \E app_id \in Badges, n \in DelegateNames,
          m \in MintResults, t \in TransferResults :
          call = [op |-> "input", app_id |-> app_id, cap |-> n,
                  mint |-> m, transfer |-> t,
                  rights |-> {}, ret |-> "none", syscalls |-> << >>]
    /\ ncalls = 0
    /\ hist = [b \in Badges |-> [n \in DbNames |-> NoHist]]
    /\ written = << >>

Delegate ==
    /\ call.op = "input"
    /\ LET out == delegate_capability(cnode, call.app_id, call.cap,
                                      call.mint, call.transfer)
       IN  /\ call' = [call EXCEPT
                         !.op = "delegate",
                         !.rights = calculate_attenuated_rights(call.cap),
                         !.ret = out.ret,
                         !.syscalls = out.syscalls]
           /\ cnode' = out.cnode
    /\ ncalls' = ncalls + 1
    /\ UNCHANGED <<apps, current_time, audit_log, audit_head, clock,
                   halted, nreq, last, hist, written>>

NextDelegate == Delegate

SpecDelegate == InitDelegate /\ [][NextDelegate]_vars

(* the lexical rules of attenuation, first matching rule wins *)
RightsRules(n) ==
    << [when |-> contains(n, L__write) \/ contains(n, L__use),
        rights |-> {"READ", "WRITE"}],
       [when |-> contains(n, L__grant), rights |-> {"READ", "WRITE", "GRANT"}],
       [when |-> contains(n, L__map), rights |-> {"READ", "MAP"}],
       [when |-> TRUE, rights |-> {"READ"}] >>

RightsTable(n) ==
    LET i == CHOOSE i \in 1 .. Len(RightsRules(n)) :
                 /\ RightsRules(n)[i].when
                 /\ \A j \in 1 .. i - 1 : ~RightsRules(n)[j].when
    IN  RightsRules(n)[i].rights

(* C33: the rights computed for a name are those of the first lexical rule *)
(* it matches (.write or .use, then .grant, then .map, else READ), they    *)
(* are the rights passed to cap_transfer, and for a name the resolver      *)
(* accepts they include neither GRANT nor MAP.                             *)
C33_RightsFollowRules ==
    call.op = "delegate" =>
        /\ call.rights = RightsTable(call.cap)
        /\ \A i \in 1 .. Len(call.syscalls) :
              call.syscalls[i][1] = "cap_transfer" =>
                  /\ call.syscalls[i][5] = RightsTable(call.cap)
                  /\ call.syscalls[i][5] \cap {"GRANT", "MAP"} = {}
        /\ resolve_system_capability(call.cap).ok =>
              call.rights \cap {"GRANT", "MAP"} = {}

(* camera.use was delegated with READ and WRITE, where a name with both    *)
(* .grant and .use gets the same and one with .grant alone gets GRANT      *)
C33_Witness ==
    /\ call.op = "delegate"
    /\ call.cap = CAMERA_USE
    /\ call.ret = "Ok"
    /\ call.syscalls = <<<<"cap_transfer", SYSTEM_CAMERA_CAP, call.app_id,
                           APP_DELEGATION_SLOT, {"READ", "WRITE"}, 0>>>>
    /\ calculate_attenuated_rights(<<"x">> \o L__grant \o L__use) = {"READ", "WRITE"}
    /\ calculate_attenuated_rights(<<"x">> \o L__grant \o L__map) =
          {"READ", "WRITE", "GRANT"}

(* C34: for a name starting with files. that the resolver accepts, the     *)
(* first call of a delegation is cap_mint on the master slot with the      *)
(* attenuated rights; a cap_transfer follows only a successful mint and    *)
(* carries the minted handle, never the master slot; when cap_mint fails   *)
(* its error is returned and no cap_transfer is issued.                    *)
C34_MintBeforeTransfer ==
    (/\ call.op = "delegate"
     /\ starts_with(call.cap, L_files_)
     /\ resolve_system_capability(call.cap).ok) =>
        LET master == resolve_system_capability(call.cap).slot
            sc == call.syscalls
        IN  /\ Len(sc) >= 1
            /\ sc[1] = <<"cap_mint", master, call.rights, call.mint>>
            /\ call.rights = calculate_attenuated_rights(call.cap)
            /\ IF call.mint < 0
               THEN /\ Len(sc) = 1
                    /\ call.ret = from_raw(call.mint)
               ELSE /\ Len(sc) = 2
                    /\ sc[2] = <<"cap_transfer", call.mint, call.app_id,
                                 APP_DELEGATION_SLOT, call.rights, call.transfer>>
                    /\ sc[2][2] # master
                    /\ cnode[call.app_id] # None =>
                          cnode[call.app_id][1].handle # master

(* files.home.read was delegated: minted on the master slot, the minted    *)
(* handle transferred and now held by the app                              *)
C34_Witness ==
    /\ call.op = "delegate"
    /\ call.cap = FILES_HOME_READ
    /\ call.ret = "Ok"
    /\ call.syscalls =
          << <<"cap_mint", SYSTEM_FS_HOME_CAP, {"READ"}, 60>>,
             <<"cap_transfer", 60, call.app_id, APP_DELEGATION_SLOT, {"READ"}, 0>> >>
    /\ cnode[call.app_id] # None
    /\ cnode[call.app_id][1].handle = 60

-----------------------------------------------------------------------------
(* Properties of whole runs of the request loop *)

(* C35: every message that is received and decoded is answered with one    *)
(* reply within its iteration, whether verification fails or a handler     *)
(* runs, and the loop is back at the receive for the next message.         *)
C35_OneReplyPerRequest ==
    [][(Handled /\ last'.tag \in {0, 1, 2}) =>
          /\ last'.reply # NoReply
          /\ ~halted']_vars

(* the number of active grant records the store holds for an identity *)
ActiveCount(a, app_id) ==
    Cardinality({p \in UNION {GrantRecords(a, app_id, n) : n \in ReqNames} :
                    GrantAt(a, p).active})

HasEntry(a, app_id) ==
    \E e \in 1 .. MAX_APPS : a[e] # None /\ a[e][1].app_id = app_id

(* C36: a tombstoned grant gives its slot to a later grant of another name *)
(* of the same app: a verified Capability request of an app whose entry    *)
(* holds fewer than MAX_GRANTS_PER_APP active grants is never refused      *)
(* with NoMem by the store.                                                *)
C36_TombstonesFreeTheirSlot ==
    [][(/\ Handled /\ last'.tag = 0 /\ Verified(last')
        /\ ~MintFailed(last'.syscalls)
        /\ HasEntry(apps, last'.badge)
        /\ ActiveCount(apps, last'.badge) < MAX_GRANTS_PER_APP) =>
          last'.reply # Error("NoMem")]_vars

(* the user approved a prompt for app_id issued before position j, after   *)
(* a hardware-presence check when the name is Critical                     *)
ApprovedBefore(syscalls, j, app_id, cap) ==
    \E i \in 1 .. j - 1 :
        /\ syscalls[i][1] = "prompt"
        /\ syscalls[i][2] = app_id
        /\ syscalls[i][4] = "approved"
        /\ assess_risk(cap) = "Critical" =>
              \E h \in 1 .. i - 1 : syscalls[h][1] = "hardware_attest"

DBafter == [apps |-> apps', current_time |-> current_time',
            audit_log |-> audit_log', audit_head |-> audit_head']

(* the entries the store holds for an identity *)
EntriesOf(a, app_id) ==
    {a[e][1] : e \in {x \in 1 .. MAX_APPS : a[x] # None /\ a[x][1].app_id = app_id}}

(* C38: a request stamped with badge A changes no grant record of another  *)
(* app B, does not change what is_granted(B, n) returns for any name n,    *)
(* and issues cap_transfer and cap_revoke only with A as target cnode.     *)
C38_PerAppIsolation ==
    [][Handled =>
          /\ \A b \in Badges \ {last'.badge} :
                /\ EntriesOf(apps', b) = EntriesOf(apps, b)
                /\ \A n \in ReqNames \ {EMPTY_NAME} :
                      is_granted(DBafter, b, n).ret = is_granted(DB, b, n).ret
          /\ \A i \in 1 .. Len(last'.syscalls) :
                /\ last'.syscalls[i][1] = "cap_transfer" =>
                      last'.syscalls[i][3] = last'.badge
                /\ last'.syscalls[i][1] = "cap_revoke" =>
                      last'.syscalls[i][2] = last'.badge]_vars

(* badge 2 was granted camera.use by a transfer into its own cnode while   *)
(* badge 1 holds an active grant of the same name and its capability       *)
C38_Witness ==
    /\ last.badge = 2
    /\ last.tag = 0
    /\ last.name = NameField(CAMERA_USE)
    /\ last.reply = Granted
    /\ \E i \in 1 .. Len(last.syscalls) :
          last.syscalls[i][1] = "cap_transfer" /\ last.syscalls[i][3] = 2
    /\ \E p \in GrantRecords(apps, 1, CAMERA_USE) : GrantAt(apps, p).active
    /\ \E p \in GrantRecords(apps, 2, CAMERA_USE) : GrantAt(apps, p).active
    /\ cnode[1] # None
    /\ cnode[2] # None

(* the grant records the store holds for an identity under other names *)
OtherRecords(a, app_id, cap) ==
    {GrantAt(a, p) : p \in UNION {GrantRecords(a, app_id, m) :
                                     m \in ReqNames \ {cap}}}

(* C39: a verified Revoke request for a name removes authority for that    *)
(* name only: a capability the app holds under another name is still held  *)
(* afterwards, and the grant records of the other names are unchanged.     *)
C39_RevokeOnlyNamedAuthority ==
    [][(Handled /\ last'.tag = 1 /\ Verified(last') /\ ~halted') =>
          LET cap == null_terminated_str(last'.name)
          IN  /\ \A m \in ReqNames \ {cap} :
                    (/\ HoldsCapFor(cnode, last'.badge, m)
                     /\ ~HoldsCapFor(cnode, last'.badge, cap)) =>
                        HoldsCapFor(cnode', last'.badge, m)
              /\ OtherRecords(apps', last'.badge, cap) =
                    OtherRecords(apps, last'.badge, cap)]_vars

-----------------------------------------------------------------------------
(* Totality of the store operations, checked under SpecExp *)

(* C40: in every store state is_granted, grant, revoke and is_expired      *)
(* return a result for every identity and every name of 0..31 bytes, the   *)
(* empty name included, without panicking.                                 *)
C40_StoreOperationsTotal ==
    \A app_id \in Badges, cap \in DbNames \cup {EMPTY_NAME} :
        /\ ~is_granted(DB, app_id, cap).panic
        /\ ~grant(DB, app_id, cap, None).panic
        /\ ~revoke(DB, app_id, cap).panic
        /\ ~is_expired(DB, app_id, cap).panic


=============================================================================
